---- MODULE Spec2Model ----
(***************************************************************************)
(* Verification model of the jsonify library: the streaming builder        *)
(* (json-builder.h over json-serializer.h) and the streaming reader        *)
(* (json-reader.h over json-deserializer.h).                               *)
(*                                                                         *)
(* Text is modelled at token level: the sink and the input stream are      *)
(* sequences of tokens ("{", "}", "[", "]", ",", ":", keys, primitives,    *)
(* whitespace).                                                            *)
(***************************************************************************)
EXTENDS Integers, Sequences, FiniteSets, TLC

VARIABLES
    \* ---- builder: detail::Serializer
    sink,               \* tokens written to the sink so far
    pDepth,             \* Serializer::pDepth
    pAlreadyHasValue,   \* Serializer::pAlreadyHasValue
    pIndent,            \* Serializer::pIndent, a sequence of characters (empty:
                        \* compact output)
    \* ---- builder: detail::SharedState
    active,             \* SharedState::active, bottom first (ids of BuildInstances)
    valueStamp,         \* SharedState::valueStamp
    awaitingValue,      \* SharedState::awaitingValue
    done,               \* SharedState::done
    \* ---- builder: the BuildInstance objects (handles) created so far
    handles,            \* sequence of handle records, root value handle is 1
    \* ---- builder: history (not program state)
    stamps,             \* per issued value stamp: where its value goes, what became of it
    nWrites,            \* number of immediate writes (set/add/push) performed
    bop,                \* the last builder operation and its outcome
    \* ---- reader: detail::Deserializer
    input,              \* the tokens of the input stream
    pPosition,          \* Deserializer::pPosition: number of tokens consumed
    \* ---- reader: detail::ReaderState
    pActive,            \* ReaderState::pActive, bottom first (ids of Instances)
    pNextStamp,         \* ReaderState::pNextStamp
    insts,              \* the Instance objects created so far
    destroyed,          \* ~ReaderState has run (no shared_ptr to the state is left)
    \* ---- reader: what the caller holds
    rvals,              \* Reader values held by the caller, the root value is 1
    rhandles,           \* ArrReader / ObjReader handles created so far (seen is
                        \* history: the children the handle made available)
    \* ---- reader: history (not program state)
    checkedDone,        \* checkDone has run and succeeded
    nChecks,            \* number of calls of checkDone so far
    nEvents,            \* number of pushes onto and pops from pActive so far
    rfault,             \* "none"; "deserialize" once a DeserializeException reached
                        \* the caller; "terminate" / "undefined" end the run
    rop,                \* the last reader operation and its outcome
    \* ---- DOM: json::Value objects and a text in flight
    dA,                 \* a json::Value the caller built
    dB,                 \* a second json::Value: built, or the result of Deserialize
    dtext,              \* a JSON text, as a sequence of code points
    dop,                \* the last DOM operation and its outcome
    \* ---- view: the ViewState of a document and one viewer of an object in it
    ventries,           \* ViewState::entries
    vstrings,           \* ViewState::strings, as a sequence of code points
    vself,              \* the index in entries of the object the viewer shows
    pLastKey,           \* the viewer's cached index of the key looked up last
    vop,                \* the last lookup and its outcome
    \* ---- layout: one sequence of builder operations run on two builders
    lay                 \* c: the builder with an empty indent, p: the builder
                        \* with a non-empty indent, n: immediate writes so far,
                        \* op: the last operation

bvars == <<sink, pDepth, pAlreadyHasValue, pIndent, active, valueStamp,
           awaitingValue, done, handles, stamps, nWrites, bop>>

rvars == <<input, pPosition, pActive, pNextStamp, insts, destroyed, rvals,
           rhandles, checkedDone, nChecks, nEvents, rfault, rop>>

vvars == <<ventries, vstrings, vself, pLastKey, vop>>

dvars == <<dA, dB, dtext, dop, vvars, lay>>

vars == <<bvars, rvars, dvars>>

(***************************************************************************)
(* Bounds of the model                                                     *)
(***************************************************************************)
MaxOps == 4     \* builder: handles created plus immediate writes (set / add / push)

Keys == {"p", "q"}
PrimToks == {"null", "1"}

(***************************************************************************)
(* JSON-like values handed to set / add / push (json::IsJson)              *)
(***************************************************************************)
VPrim(t) == [k |-> "prim", t |-> t, items |-> <<>>]
VArr(items) == [k |-> "arr", t |-> "", items |-> items]
VObj(items) == [k |-> "obj", t |-> "", items |-> items]
Item(key, val) == [key |-> key, val |-> val]

JsonValues ==
    { VPrim("1"),
      VArr(<<Item("", VObj(<<Item("p", VPrim("1")), Item("q", VArr(<<>>))>>)),
             Item("", VPrim("1"))>>) }

(***************************************************************************)
(* The state of one builder as a record, so that the code's functions can  *)
(* be written as operators from state to state.                            *)
(***************************************************************************)
BState ==
    [sink |-> sink, pDepth |-> pDepth, pAlreadyHasValue |-> pAlreadyHasValue,
     pIndent |-> pIndent, active |-> active, valueStamp |-> valueStamp,
     awaitingValue |-> awaitingValue, done |-> done, handles |-> handles,
     stamps |-> stamps, thrown |-> "none"]

Top(s) == s[Len(s)]
Pop(s) == SubSeq(s, 1, Len(s) - 1)

(***************************************************************************)
(* detail::Serializer (json-serializer.h)                                  *)
(***************************************************************************)
\* the constructor: of the indent only spaces and tabs are kept
RECURSIVE Sanitize(_)
Sanitize(indent) ==
    IF indent = <<>> THEN <<>>
    ELSE (IF Head(indent) \in {" ", "\t"} THEN <<Head(indent)>> ELSE <<>>)
         \o Sanitize(Tail(indent))

\* the characters fNewline writes, as one token of the sink: the newline and
\* d times the indentation
RECURSIVE Flat(_)
Flat(chars) == IF chars = <<>> THEN "" ELSE Head(chars) \o Flat(Tail(chars))

RECURSIVE NL(_, _)
NL(indent, d) == IF d = 0 THEN "\n" ELSE NL(indent, d - 1) \o Flat(indent)

\* mutation: the indentation of the elements is written before a closing
\* bracket as well
fNewline_Deeper(st) ==
    IF st.pIndent = <<>> THEN st
    ELSE [st EXCEPT !.sink = Append(@, NL(st.pIndent, st.pDepth + 1))]

fNewline(st) ==
    IF st.pIndent = <<>> THEN st
    ELSE [st EXCEPT !.sink = Append(@, NL(st.pIndent, st.pDepth))]

SerPrimitive(st, t) == [st EXCEPT !.sink = Append(@, t)]

SerBegin(st, obj) ==
    [st EXCEPT !.pDepth = @ + 1,
               !.pAlreadyHasValue = FALSE,
               !.sink = Append(@, IF obj THEN "{" ELSE "[")]

SerObjectKey(st, key) ==
    LET s1 == IF st.pAlreadyHasValue THEN [st EXCEPT !.sink = Append(@, ",")] ELSE st
        s2 == fNewline([s1 EXCEPT !.pAlreadyHasValue = TRUE])
    IN [s2 EXCEPT !.sink = @ \o <<key, IF st.pIndent = <<>> THEN ":" ELSE ": ">>]

SerArrayValue(st) ==
    LET s1 == IF st.pAlreadyHasValue THEN [st EXCEPT !.sink = Append(@, ",")] ELSE st
    IN fNewline([s1 EXCEPT !.pAlreadyHasValue = TRUE])

\* mutation: the closed composite is not marked as a value of its parent
SerEnd_KeepFlag(st, obj) ==
    LET s1 == [st EXCEPT !.pDepth = @ - 1]
        s2 == IF s1.pAlreadyHasValue THEN fNewline(s1) ELSE s1
    IN [s2 EXCEPT !.sink = Append(@, IF obj THEN "}" ELSE "]")]

SerEnd(st, obj) ==
    LET s1 == [st EXCEPT !.pDepth = @ - 1]
        s2 == IF s1.pAlreadyHasValue THEN fNewline(s1) ELSE s1
    IN [s2 EXCEPT !.pAlreadyHasValue = TRUE,
                  !.sink = Append(@, IF obj THEN "}" ELSE "]")]

(***************************************************************************)
(* detail::BuildInstance (json-builder.h)                                  *)
(*                                                                         *)
(* A handle record: cls is the handle class ("value", "obj", "arr"),       *)
(* pState / pStamp are the fields of its BuildInstance, live says whether  *)
(* the handle object still exists. openAt / closeAt are history: the sink  *)
(* index of the opening bracket written for it and of every closing        *)
(* bracket written by its fClose; slot is the value position (index into   *)
(* stamps) a value handle was issued for.                                  *)
(***************************************************************************)
NewHandle(cls) ==
    [cls |-> cls, pState |-> "closed", pStamp |-> 0, live |-> TRUE,
     openAt |-> 0, closeAt |-> <<>>, slot |-> 0]

\* mutation: a closed handle is not refused
CaptureThrows_NoClosed(st, h) ==
    \/ st.done
    \/ /\ st.handles[h].pState = "value"
       /\ (st.handles[h].pStamp # st.valueStamp \/ ~st.awaitingValue)

\* the condition under which fEnsureCapture throws JsonBuilderException
CaptureThrows(st, h) ==
    \/ st.done
    \/ st.handles[h].pState = "closed"
    \/ /\ st.handles[h].pState = "value"
       /\ (st.handles[h].pStamp # st.valueStamp \/ ~st.awaitingValue)

\* mutation: the bracket kind passed to end() is inverted
fClose_WrongBracket(st, h) ==
    LET hs == st.handles[h]
        s1 == IF hs.pState # "value"
              THEN LET e == SerEnd(st, hs.pState = "arr")
                   IN [e EXCEPT !.active = Pop(@),
                                !.handles[h].closeAt = Append(@, Len(e.sink))]
              ELSE IF hs.pStamp = st.valueStamp /\ st.awaitingValue
                   THEN [st EXCEPT !.awaitingValue = FALSE]
                   ELSE st
        s2 == [s1 EXCEPT !.handles[h].pState = "closed"]
    IN IF s2.active = <<>> THEN [s2 EXCEPT !.done = TRUE] ELSE s2

\* mutation: done is set although a composite is still active
fClose_DoneAlways(st, h) ==
    LET hs == st.handles[h]
        s1 == IF hs.pState # "value"
              THEN LET e == SerEnd(st, hs.pState = "obj")
                   IN [e EXCEPT !.active = Pop(@),
                                !.handles[h].closeAt = Append(@, Len(e.sink))]
              ELSE IF hs.pStamp = st.valueStamp /\ st.awaitingValue
                   THEN [st EXCEPT !.awaitingValue = FALSE]
                   ELSE st
    IN [s1 EXCEPT !.handles[h].pState = "closed", !.done = TRUE]

\* mutation: closing the active value leaves the awaiting flag set
fClose_KeepAwaiting(st, h) ==
    LET hs == st.handles[h]
        s1 == IF hs.pState # "value"
              THEN LET e == SerEnd(st, hs.pState = "obj")
                   IN [e EXCEPT !.active = Pop(@),
                                !.handles[h].closeAt = Append(@, Len(e.sink))]
              ELSE st
        s2 == [s1 EXCEPT !.handles[h].pState = "closed"]
    IN IF s2.active = <<>> THEN [s2 EXCEPT !.done = TRUE] ELSE s2

\* mutation: done is set as soon as one composite is left on the stack
fClose_DoneEarly(st, h) ==
    LET hs == st.handles[h]
        s1 == IF hs.pState # "value"
              THEN LET e == SerEnd(st, hs.pState = "obj")
                   IN [e EXCEPT !.active = Pop(@),
                                !.handles[h].closeAt = Append(@, Len(e.sink))]
              ELSE IF hs.pStamp = st.valueStamp /\ st.awaitingValue
                   THEN [st EXCEPT !.awaitingValue = FALSE]
                   ELSE st
        s2 == [s1 EXCEPT !.handles[h].pState = "closed"]
    IN IF Len(s2.active) <= 1 THEN [s2 EXCEPT !.done = TRUE] ELSE s2

fClose(st, h) ==
    LET hs == st.handles[h]
        s1 == IF hs.pState # "value"
              THEN LET e == SerEnd(st, hs.pState = "obj")
                   IN [e EXCEPT !.active = Pop(@),
                                !.handles[h].closeAt = Append(@, Len(e.sink))]
              ELSE IF hs.pStamp = st.valueStamp /\ st.awaitingValue
                   THEN [st EXCEPT !.awaitingValue = FALSE]
                   ELSE st
        s2 == [s1 EXCEPT !.handles[h].pState = "closed"]
    IN IF s2.active = <<>> THEN [s2 EXCEPT !.done = TRUE] ELSE s2

\* the loop of fEnsureCapture: close all builders above h
RECURSIVE fCloseAbove(_, _)
fCloseAbove(st, h) ==
    IF st.active = <<>> THEN [st EXCEPT !.thrown = "undefined"]
    ELSE IF Top(st.active) # h THEN fCloseAbove(fClose(st, Top(st.active)), h)
    ELSE st

\* mutation: null is written for the pending value but the flag stays set
fNullPending_KeepFlag(st) ==
    IF st.awaitingValue
    THEN LET s1 == SerPrimitive(st, "null")
         IN [s1 EXCEPT !.stamps[Len(st.stamps)].nulled = TRUE]
    ELSE st

\* the pending value, if any, is written as null
fNullPending(st) ==
    IF st.awaitingValue
    THEN LET s1 == SerPrimitive([st EXCEPT !.awaitingValue = FALSE], "null")
         IN [s1 EXCEPT !.stamps[Len(st.stamps)].nulled = TRUE]
    ELSE st

\* mutation: the builders above h are not closed
fEnsureCapture_NoCloseAbove(st, h) ==
    IF CaptureThrows(st, h) THEN [st EXCEPT !.thrown = "builder"]
    ELSE IF st.handles[h].pState = "value" THEN st
    ELSE fNullPending(st)

\* mutation: the pending value is nulled before the handle is checked
fEnsureCapture_NullFirst(st, h) ==
    IF CaptureThrows(st, h) THEN [fNullPending(st) EXCEPT !.thrown = "builder"]
    ELSE IF st.handles[h].pState = "value" THEN st
    ELSE fCloseAbove(fNullPending(st), h)

fEnsureCapture(st, h) ==
    IF CaptureThrows(st, h) THEN [st EXCEPT !.thrown = "builder"]
    ELSE IF st.handles[h].pState = "value" THEN st
    ELSE fCloseAbove(fNullPending(st), h)

RECURSIVE fWrite(_, _), fWriteItems(_, _, _)
fWriteItems(st, items, obj) ==
    IF items = <<>> THEN st
    ELSE LET s1 == IF obj THEN SerObjectKey(st, Head(items).key) ELSE SerArrayValue(st)
         IN fWriteItems(fWrite(s1, Head(items).val), Tail(items), obj)

fWrite(st, v) ==
    IF v.k = "prim" THEN SerPrimitive(st, v.t)
    ELSE SerEnd(fWriteItems(SerBegin(st, v.k = "obj"), v.items, v.k = "obj"), v.k = "obj")

\* mutation: the new composite is put at the bottom of the stack
passCapture_Below(st, cls) ==
    LET b == Len(st.handles) + 1
        s1 == [st EXCEPT !.handles = Append(@, [NewHandle(cls) EXCEPT !.pState = cls]),
                         !.active = <<b>> \o @]
        s2 == SerBegin(s1, cls = "obj")
    IN [s2 EXCEPT !.handles[b].openAt = Len(s2.sink)]

\* passCapture on a freshly made composite handle: it becomes the new top
passCapture(st, cls) ==
    LET b == Len(st.handles) + 1
        s1 == [st EXCEPT !.handles = Append(@, [NewHandle(cls) EXCEPT !.pState = cls]),
                         !.active = Append(@, b)]
        s2 == SerBegin(s1, cls = "obj")
    IN [s2 EXCEPT !.handles[b].openAt = Len(s2.sink)]

\* mutation: the value stamp is not advanced
nextValue_SameStamp(st) ==
    [st EXCEPT !.handles = Append(@, [NewHandle("value") EXCEPT
                                        !.pState = "value",
                                        !.pStamp = st.valueStamp,
                                        !.slot = Len(st.stamps) + 1]),
               !.awaitingValue = TRUE,
               !.stamps = Append(@, [pos |-> Len(st.sink) + 1, used |-> FALSE,
                                     nulled |-> FALSE])]

\* nextValue (and initValue) on a freshly made value handle
nextValue(st) ==
    [st EXCEPT !.handles = Append(@, [NewHandle("value") EXCEPT
                                        !.pState = "value",
                                        !.pStamp = st.valueStamp + 1,
                                        !.slot = Len(st.stamps) + 1]),
               !.valueStamp = @ + 1,
               !.awaitingValue = TRUE,
               !.stamps = Append(@, [pos |-> Len(st.sink) + 1, used |-> FALSE,
                                     nulled |-> FALSE])]

(***************************************************************************)
(* Builder operations (BuildValue, BuildObject, BuildArray, Build)         *)
(***************************************************************************)
SetB(st) ==
    /\ sink' = st.sink
    /\ pDepth' = st.pDepth
    /\ pAlreadyHasValue' = st.pAlreadyHasValue
    /\ pIndent' = st.pIndent
    /\ active' = st.active
    /\ valueStamp' = st.valueStamp
    /\ awaitingValue' = st.awaitingValue
    /\ done' = st.done
    /\ handles' = st.handles
    /\ stamps' = st.stamps
    /\ UNCHANGED <<rvars, dvars>>

BOp(op, h, res) == [op |-> op, h |-> h, res |-> res]

BReturns(op, h, st, writes) ==
    /\ SetB(st)
    /\ nWrites' = nWrites + writes
    /\ bop' = BOp(op, h, "ok")

LiveHandles(cls) ==
    {h \in 1..Len(handles) : handles[h].live /\ handles[h].cls = cls}

\* the run may still create a handle or write a value
Budget == Len(handles) + nWrites < MaxOps

\* the call passes the check at the head of fEnsureCapture
Captures(h) == ~CaptureThrows(BState, h)

MarkUsed(st) == [st EXCEPT !.stamps[Len(st.stamps)].used = TRUE]

\* the keys the caller passes: "p" for the first key written, "q" afterwards
KeysFor(h) ==
    IF handles[h].cls # "obj" THEN {""}
    ELSE IF \E i \in 1..Len(sink) : sink[i] = "p" THEN {"q"} ELSE {"p"}

\* the key (object) or the separator (array) of the next child
fChildStart(st, h, key) ==
    IF st.handles[h].cls = "obj" THEN SerObjectKey(st, key) ELSE SerArrayValue(st)

\* Every mutating operation starts with capture(): when fEnsureCapture throws,
\* the call ends there with JsonBuilderException, whichever operation it was.
ThrowingCall(h) ==
    /\ h \in 1..Len(handles) /\ handles[h].live
    /\ \E c \in {fEnsureCapture(BState, h)} :
          /\ c.thrown = "builder"
          \* the state the exception leaves behind
          /\ SetB([c EXCEPT !.thrown = "none"])
    /\ nWrites' = nWrites
    /\ bop' = BOp("call", h, "throw")

\* BuildValue::set
ValueSet(h) ==
    /\ h \in LiveHandles("value") /\ Captures(h) /\ Budget
    /\ \E v \in JsonValues :
         BReturns("set", h, MarkUsed(fClose(fWrite(fEnsureCapture(BState, h), v), h)), 1)

\* BuildValue::obj and BuildValue::arr
ValueOpen(h, cls) ==
    /\ h \in LiveHandles("value") /\ Captures(h) /\ Budget
    /\ BReturns(cls, h, MarkUsed(fClose(passCapture(fEnsureCapture(BState, h), cls), h)), 0)

ValueObj(h) == ValueOpen(h, "obj")
ValueArr(h) == ValueOpen(h, "arr")

\* BuildValue copy constructor: the copy carries the same state and stamp
ValueCopy(h) ==
    /\ h \in LiveHandles("value") /\ Budget
    /\ handles' = Append(handles, handles[h])
    /\ bop' = BOp("copy", h, "ok")
    /\ UNCHANGED <<sink, pDepth, pAlreadyHasValue, pIndent, active, valueStamp,
                   awaitingValue, done, stamps, nWrites, rvars, dvars>>

\* BuildObject::addVal, BuildArray::pushVal
CompVal(op, h) ==
    /\ Captures(h) /\ Budget
    /\ \E key \in KeysFor(h) :
         BReturns(op, h, nextValue(fChildStart(fEnsureCapture(BState, h), h, key)), 0)

\* BuildObject::addArr / addObj, BuildArray::pushArr / pushObj
CompOpen(op, h, cls) ==
    /\ Captures(h) /\ Budget
    /\ \E key \in KeysFor(h) :
         BReturns(op, h, passCapture(fChildStart(fEnsureCapture(BState, h), h, key), cls), 0)

\* BuildObject::add, BuildArray::push
CompWrite(op, h) ==
    /\ Captures(h) /\ Budget
    /\ \E key \in KeysFor(h), v \in JsonValues :
         BReturns(op, h, fWrite(fChildStart(fEnsureCapture(BState, h), h, key), v), 1)

AddVal(h) == h \in LiveHandles("obj") /\ CompVal("addVal", h)
AddArr(h) == h \in LiveHandles("obj") /\ CompOpen("addArr", h, "arr")
AddObj(h) == h \in LiveHandles("obj") /\ CompOpen("addObj", h, "obj")
Add(h) == h \in LiveHandles("obj") /\ CompWrite("add", h)
PushVal(h) == h \in LiveHandles("arr") /\ CompVal("pushVal", h)
PushArr(h) == h \in LiveHandles("arr") /\ CompOpen("pushArr", h, "arr")
PushObj(h) == h \in LiveHandles("arr") /\ CompOpen("pushObj", h, "obj")
Push(h) == h \in LiveHandles("arr") /\ CompWrite("push", h)

\* BuildObject::close, BuildArray::close
Close(h) ==
    /\ h \in LiveHandles("obj") \cup LiveHandles("arr") /\ Captures(h)
    /\ BReturns("close", h, fClose(fEnsureCapture(BState, h), h), 0)

\* mutation: the destructor of the current value handle writes its null
fDestroy_NullOnDrop(st, h) ==
    LET s1 == [st EXCEPT !.handles[h].live = FALSE]
    IN IF st.handles[h].pState = "closed" THEN s1
       ELSE IF st.handles[h].pState = "value"
       THEN (IF st.handles[h].pStamp = st.valueStamp THEN fNullPending(s1) ELSE s1)
       ELSE LET c == fEnsureCapture(s1, h)
            IN IF c.thrown # "none" THEN c ELSE fClose(c, h)

\* ~BuildInstance: the destructor of a handle
fDestroy(st, h) ==
    LET s1 == [st EXCEPT !.handles[h].live = FALSE]
    IN IF st.handles[h].pState \in {"closed", "value"} THEN s1
       ELSE LET c == fEnsureCapture(s1, h)
            IN IF c.thrown # "none" THEN c ELSE fClose(c, h)

\* a handle goes out of scope (the handle is the one whose live flag falls)
Drop(h) ==
    /\ h \in 1..Len(handles) /\ handles[h].live
    /\ LET d == fDestroy(BState, h)
       IN /\ SetB([d EXCEPT !.thrown = "none"])
          /\ nWrites' = nWrites
          /\ bop' = BOp("drop", 0, IF d.thrown = "none" THEN "ok" ELSE "terminate")

\* json::Value holding null (the default-constructed Value)
DNull == [kind |-> "null", n |-> 0, s |-> <<>>, items |-> <<>>]

DOpAt(op, of, res, arg) == [op |-> op, of |-> of, res |-> res, arg |-> arg]
DOp(op, of, res) == DOpAt(op, of, res, 0)

\* no DOM value is in use while a builder or reader run is examined
VOp(op, key, res, cached) == [op |-> op, key |-> key, res |-> res, cached |-> cached]

\* no view is in use
ViewIdle ==
    /\ ventries = <<>> /\ vstrings = <<>> /\ vself = 0 /\ pLastKey = 0
    /\ vop = VOp("idle", <<>>, 0, FALSE)

\* no pair of builders is compared
LayIdle == lay = <<>>

DomIdle ==
    /\ dA = DNull /\ dB = DNull /\ dtext = <<>> /\ dop = DOp("idle", "", "")
    /\ ViewIdle /\ LayIdle

\* the builder is idle while a reader run is examined
BuilderIdle ==
    /\ sink = <<>> /\ pDepth = 0 /\ pAlreadyHasValue = FALSE /\ pIndent = <<>>
    /\ active = <<>> /\ valueStamp = 0 /\ awaitingValue = FALSE /\ done = FALSE
    /\ handles = <<>> /\ stamps = <<>> /\ nWrites = 0 /\ bop = BOp("idle", 0, "")

\* the reader is idle while a builder run is examined
ReaderIdle ==
    /\ input = <<>> /\ pPosition = 0 /\ pActive = <<>> /\ pNextStamp = 0
    /\ insts = <<>> /\ destroyed = FALSE /\ rvals = <<>> /\ rhandles = <<>>
    /\ checkedDone = FALSE /\ nChecks = 0 /\ nEvents = 0 /\ rfault = "none"
    /\ rop = [op |-> "idle", h |-> 0, src |-> [t |-> "none", i |-> 0], res |-> ""]

\* json::Build: the shared state and the root value handle (initValue)
BuildInit ==
    LET st == nextValue([sink |-> <<>>, pDepth |-> 0, pAlreadyHasValue |-> FALSE,
                         pIndent |-> <<>>, active |-> <<>>, valueStamp |-> 0,
                         awaitingValue |-> FALSE, done |-> FALSE, handles |-> <<>>,
                         stamps |-> <<>>, thrown |-> "none"])
    IN /\ sink = st.sink
       /\ pDepth = st.pDepth
       /\ pAlreadyHasValue = st.pAlreadyHasValue
       /\ pIndent = st.pIndent
       /\ active = st.active
       /\ valueStamp = st.valueStamp
       /\ awaitingValue = st.awaitingValue
       /\ done = st.done
       /\ handles = st.handles
       /\ stamps = st.stamps
       /\ nWrites = 0
       /\ bop = BOp("Build", 1, "ok")
       /\ ReaderIdle
       /\ DomIdle

BuildNext ==
    \E h \in 1..MaxOps :
        \/ ThrowingCall(h)
        \/ ValueSet(h)
        \/ ValueObj(h)
        \/ ValueArr(h)
        \/ ValueCopy(h)
        \/ AddVal(h)
        \/ AddArr(h)
        \/ AddObj(h)
        \/ Add(h)
        \/ PushVal(h)
        \/ PushArr(h)
        \/ PushObj(h)
        \/ Push(h)
        \/ Close(h)
        \/ Drop(h)

SpecBuilder == BuildInit /\ [][BuildNext]_vars

(***************************************************************************)
(* Well-formedness of a token sequence as one JSON value (RFC 8259 at      *)
(* token level), used to judge what the builder wrote.                     *)
(***************************************************************************)
\* PValue(t, i): the index after the value that starts at t[i], 0 if none does
RECURSIVE PValue(_, _), PArrRest(_, _), PObjRest(_, _)
PValue(t, i) ==
    IF i > Len(t) THEN 0
    ELSE IF t[i] \in PrimToks THEN i + 1
    ELSE IF t[i] = "[" THEN
        IF i + 1 <= Len(t) /\ t[i + 1] = "]" THEN i + 2 ELSE PArrRest(t, i + 1)
    ELSE IF t[i] = "{" THEN
        IF i + 1 <= Len(t) /\ t[i + 1] = "}" THEN i + 2 ELSE PObjRest(t, i + 1)
    ELSE 0

PArrRest(t, i) ==
    LET j == PValue(t, i)
    IN IF j = 0 \/ j > Len(t) THEN 0
       ELSE IF t[j] = "]" THEN j + 1
       ELSE IF t[j] = "," THEN PArrRest(t, j + 1)
       ELSE 0

PObjRest(t, i) ==
    IF i + 1 > Len(t) \/ t[i] \notin Keys \/ t[i + 1] # ":" THEN 0
    ELSE LET j == PValue(t, i + 2)
         IN IF j = 0 \/ j > Len(t) THEN 0
            ELSE IF t[j] = "}" THEN j + 1
            ELSE IF t[j] = "," THEN PObjRest(t, j + 1)
            ELSE 0

WellFormed(t) == PValue(t, 1) = Len(t) + 1

AllDropped == \A h \in 1..Len(handles) : ~handles[h].live

\* C1 (as claimed): once every handle has been dropped, the sink holds exactly
\* one well-formed JSON value.
C1_AllDroppedWellFormed == AllDropped => WellFormed(sink)

\* C3 (as claimed): once every handle has been dropped, every value position
\* (the root's included) that was never set or opened holds null.
C3_AbandonedIsNull ==
    AllDropped =>
        \A s \in 1..Len(stamps) :
            ~stamps[s].used =>
                stamps[s].pos <= Len(sink) /\ sink[stamps[s].pos] = "null"

(***************************************************************************)
(* Builder: force-closing, pending values, closing of composites, errors   *)
(***************************************************************************)
CompOps == {"addVal", "addArr", "addObj", "add", "pushVal", "pushArr", "pushObj",
            "push", "close"}
ValueOps == {"set", "obj", "arr"}

(***************************************************************************)
(* The same builder operations on two builders: json::Build(sink, L"") and *)
(* json::Build(sink, indent)                                               *)
(***************************************************************************)
\* the indents the caller passes
Indents == { <<"\t", " ">>, <<"x">>, <<" ", "x", " ">> }

\* json::Build(sink, indent): the serializer's constructor and initValue
Build(indent) ==
    nextValue([sink |-> <<>>, pDepth |-> 0, pAlreadyHasValue |-> FALSE,
               pIndent |-> Sanitize(indent), active |-> <<>>, valueStamp |-> 0,
               awaitingValue |-> FALSE, done |-> FALSE, handles |-> <<>>,
               stamps |-> <<>>, thrown |-> "none"])

LayCalls == ValueOps \cup CompOps \cup {"drop"}

\* the handle classes a call exists on
CallOn(op) ==
    IF op \in ValueOps THEN {"value"}
    ELSE IF op \in {"addVal", "addArr", "addObj", "add"} THEN {"obj"}
    ELSE IF op \in {"pushVal", "pushArr", "pushObj", "push"} THEN {"arr"}
    ELSE IF op = "close" THEN {"obj", "arr"}
    ELSE {"value", "obj", "arr"}

\* the state a call of a handle leaves a builder in
BuilderCall(st, op, h, key, v) ==
    IF op = "set" THEN MarkUsed(fClose(fWrite(fEnsureCapture(st, h), v), h))
    ELSE IF op \in {"obj", "arr"}
    THEN MarkUsed(fClose(passCapture(fEnsureCapture(st, h), op), h))
    ELSE IF op \in {"addVal", "pushVal"}
    THEN nextValue(fChildStart(fEnsureCapture(st, h), h, key))
    ELSE IF op \in {"addArr", "pushArr"}
    THEN passCapture(fChildStart(fEnsureCapture(st, h), h, key), "arr")
    ELSE IF op \in {"addObj", "pushObj"}
    THEN passCapture(fChildStart(fEnsureCapture(st, h), h, key), "obj")
    ELSE IF op \in {"add", "push"}
    THEN fWrite(fChildStart(fEnsureCapture(st, h), h, key), v)
    ELSE IF op = "close" THEN fClose(fEnsureCapture(st, h), h)
    ELSE [fDestroy(st, h) EXCEPT !.thrown = "none"]

LayInit ==
    /\ \E indent \in Indents :
          lay = [c |-> Build(<<>>), p |-> Build(indent), indent |-> indent,
                 n |-> 0, op |-> BOp("Build", 1, "ok")]
    /\ BuilderIdle /\ ReaderIdle
    /\ dA = DNull /\ dB = DNull /\ dtext = <<>> /\ dop = DOp("idle", "", "")
    /\ ViewIdle

\* one call, made on both builders
LayCall(op, h) ==
    /\ h \in 1..Len(lay.c.handles) /\ lay.c.handles[h].live
    /\ lay.c.handles[h].cls \in CallOn(op)
    /\ op # "drop" => ~CaptureThrows(lay.c, h) /\ ~CaptureThrows(lay.p, h)
    /\ op \notin {"close", "drop"} => Len(lay.c.handles) + lay.n < MaxOps
    /\ \E key \in (IF lay.c.handles[h].cls # "obj" THEN {""}
                   ELSE IF \E i \in 1..Len(lay.c.sink) : lay.c.sink[i] = "p"
                   THEN {"q"} ELSE {"p"}),
          v \in (IF op \in {"set", "add", "push"} THEN JsonValues ELSE {VPrim("1")}) :
          lay' = [lay EXCEPT !.c = BuilderCall(lay.c, op, h, key, v),
                             !.p = BuilderCall(lay.p, op, h, key, v),
                             !.n = @ + (IF op \in {"set", "add", "push"} THEN 1 ELSE 0),
                             !.op = BOp(op, h, "ok")]
    /\ UNCHANGED <<bvars, rvars, dA, dB, dtext, dop, vvars>>

LayNext == \E op \in LayCalls, h \in 1..MaxOps : LayCall(op, h)

SpecLayout == LayInit /\ [][LayNext]_vars

\* ---------------- claims about the layout of the builder's output ----------------

Opening == {"{", "["}
Closing == {"}", "]"}

\* the whitespace of a line break at depth d with indent w, as the spec words it
LineBreak(w, d) == NL(w, d)

LineBreaks(w, s) == {LineBreak(w, d) : d \in 0..Len(s)}

\* the nesting depth at every position i of s: brackets opened and not closed
\* before i
RECURSIVE DepthsFrom(_, _)
DepthsFrom(s, d) ==
    IF s = <<>> THEN <<>>
    ELSE <<d>> \o DepthsFrom(Tail(s), IF Head(s) \in Opening THEN d + 1
                                      ELSE IF Head(s) \in Closing THEN d - 1
                                      ELSE d)

Depths(s) == DepthsFrom(s, 0)

\* the opening bracket of the innermost composite position i of s lies in (0:
\* none), dep being the depths of s
EnclosingAt(s, dep, i) ==
    LET js == {j \in 1..(i - 1) : s[j] \in Opening /\ dep[j] + 1 = dep[i]}
    IN IF js = {} THEN 0 ELSE CHOOSE j \in js : \A k \in js : k <= j

\* s without whitespace: no line breaks, and ':' for ': '
RECURSIVE Without(_, _)
Without(brk, s) ==
    IF s = <<>> THEN <<>>
    ELSE (IF Head(s) \in brk THEN <<>>
          ELSE IF Head(s) = ": " THEN <<":">>
          ELSE <<Head(s)>>) \o Without(brk, Tail(s))

Unspaced(w, s) == Without(LineBreaks(w, s), s)

\* s holds tokens only, no whitespace
NoWhitespace(s) ==
    \A i \in 1..Len(s) : s[i] \in Opening \cup Closing \cup Keys \cup PrimToks \cup {",", ":"}

\* the whitespace of s is what pretty output with indent w has, and no other
PrettyLayout(w, s) ==
    \E dep \in {Depths(s)}, brk \in {LineBreaks(w, s)} :
      \A i \in 1..Len(s) :
        \* a line break at the depth before every key
        /\ s[i] \in Keys => i > 1 /\ s[i - 1] = LineBreak(w, dep[i])
        \* one space after every ':'
        /\ s[i] # ":"
        /\ s[i] \in Keys /\ i < Len(s) => s[i + 1] = ": "
        \* a line break at the depth before every array element
        /\ (/\ s[i] \in PrimToks \cup Opening
            /\ \E e \in {EnclosingAt(s, dep, i)} : e # 0 /\ s[e] = "[")
           => s[i - 1] = LineBreak(w, dep[i])
        \* a line break at the depth less one before the closing bracket of a
        \* non-empty composite, none in an empty one
        /\ s[i] \in Closing =>
              \/ s[i - 1] \in Opening
              \/ s[i - 1] = LineBreak(w, dep[i] - 1)
        \* no other whitespace
        /\ s[i] \in brk =>
              \/ /\ i < Len(s) /\ s[i + 1] \in Keys \cup PrimToks \cup Opening
                 /\ s[i] = LineBreak(w, dep[i])
              \/ /\ i < Len(s) /\ s[i + 1] \in Closing
                 /\ s[i] = LineBreak(w, dep[i] - 1)
                 /\ s[i - 1] \notin Opening
              \/ /\ i = Len(s) /\ lay.p.awaitingValue
                 /\ s[i] = LineBreak(w, dep[i])

\* the kept characters of an indent
Blanks(indent) == SelectSeq(indent, LAMBDA ch : ch \in {" ", "\t"})

\* C28 (as claimed): for the same builder operations, the output with a
\* non-empty indent is the compact output plus a line break and depth times
\* the indent before every key and element, one space after every ':' and a
\* line break and (depth - 1) times the indent before the closing bracket of a
\* non-empty composite; the compact output holds no whitespace.
C28_AsClaimed ==
    /\ NoWhitespace(lay.c.sink)
    /\ lay.indent # <<>> =>
          /\ PrettyLayout(lay.indent, lay.p.sink)
          /\ Unspaced(lay.indent, lay.p.sink) = lay.c.sink

\* C28 (amended): the same with the indent taken as its spaces and tabs only;
\* an indent without a space or tab gives the compact output.
C28_PrettyIsCompactPlusWhitespace ==
    /\ NoWhitespace(lay.c.sink)
    /\ Blanks(lay.indent) # <<>> =>
          /\ PrettyLayout(Blanks(lay.indent), lay.p.sink)
          /\ Unspaced(Blanks(lay.indent), lay.p.sink) = lay.c.sink
    /\ Blanks(lay.indent) = <<>> => lay.p.sink = lay.c.sink

\* a non-empty object in a non-empty array and an empty array have been closed
\* in pretty mode, by an indent of which a character was dropped
C28_Witness ==
    /\ lay.indent = <<" ", "x", " ">>
    /\ \E i \in 1..Len(lay.p.sink) : lay.p.sink[i] = LineBreak(<<" ", " ">>, 2)
    /\ \E i \in 2..Len(lay.p.sink) : lay.p.sink[i] = "]" /\ lay.p.sink[i - 1] = "["
    /\ lay.p.done

IsPrefix(p, t) == Len(p) <= Len(t) /\ SubSeq(t, 1, Len(p)) = p

Closer(cls) == IF cls = "obj" THEN "}" ELSE "]"
Opener(cls) == IF cls = "obj" THEN "{" ELSE "["

\* position of handle h on the active stack, 0 if it is not on it
StackIndex(h) ==
    IF \E i \in 1..Len(active) : active[i] = h
    THEN CHOOSE i \in 1..Len(active) : active[i] = h
    ELSE 0

\* what a composite operation on the non-top-most h must write first: null for
\* a pending value, then the closing brackets of the composites above h, top first
ForcedTokens(h) ==
    LET n == Len(active) - StackIndex(h)
    IN (IF awaitingValue THEN <<"null">> ELSE <<>>)
       \o [i \in 1..n |-> Closer(handles[active[Len(active) - i + 1]].cls)]

\* ... and then the separator and key of the new child, or h's own bracket
OwnTokens(h, op, key) ==
    IF op = "close" THEN <<Closer(handles[h].cls)>>
    ELSE IF handles[h].cls = "obj" THEN <<",", key, ":">>
    ELSE <<",">>

C4_Step ==
    LET h == bop'.h
    IN (bop'.op \in CompOps /\ bop'.res = "ok"
        /\ StackIndex(h) > 0 /\ StackIndex(h) < Len(active))
       => /\ \E key \in Keys \cup {""} :
               IsPrefix(sink \o ForcedTokens(h) \o OwnTokens(h, bop'.op, key), sink')
          /\ \A i \in (StackIndex(h) + 1)..Len(active) :
               handles'[active[i]].pState = "closed"
          /\ IsPrefix(SubSeq(active, 1, StackIndex(h) - 1), active')
          /\ \A i \in 1..Len(active') : active'[i] \notin
               {active[j] : j \in (StackIndex(h) + 1)..Len(active)}

\* C4: a composite operation on a handle that is on the active stack but not
\* top-most writes null for a pending value, then the closing bracket of every
\* composite above it from the top downwards (each popped and marked closed),
\* and only then the child's separator and key or its own closing bracket.
C4_ForceCloseOrder == [][C4_Step]_vars

\* o = root.obj(); inner = o.addObj("p"); o.add("q", 1) wrote {"p":{},"q":1
C4_Witness ==
    /\ bop = [op |-> "add", h |-> 2, res |-> "ok"]
    /\ sink = <<"{", "p", ":", "{", "}", ",", "q", ":", "1">>
    /\ handles[3].pState = "closed" /\ handles[3].live

\* the value position a handle was issued for is still pending: it is the
\* newest one and was neither written, opened nor replaced by null
SlotPending(h) ==
    /\ handles[h].slot = Len(stamps)
    /\ ~stamps[handles[h].slot].used
    /\ ~stamps[handles[h].slot].nulled

\* C5: set/obj/arr is accepted only on a handle of the one pending value
\* position (stamp equal to the value stamp, awaiting-value set); every handle
\* issued earlier, and every copy of a used handle, is refused.
C5_OnePendingValue ==
    \A h \in 1..Len(handles) :
        (handles[h].cls = "value" /\ ~CaptureThrows(BState, h))
            => /\ SlotPending(h)
               /\ handles[h].pStamp = valueStamp /\ awaitingValue

\* a stale handle was just refused while a newer value handle is current
C5_Witness ==
    /\ bop.res = "throw" /\ handles[bop.h].cls = "value"
    /\ handles[bop.h].pState = "value"
    /\ \E g \in 1..Len(handles) :
         /\ handles[g].cls = "value" /\ handles[g].live
         /\ handles[g].slot > handles[bop.h].slot
         /\ ~CaptureThrows(BState, g)

\* MatchClose(t, i): index of the bracket closing the one opened at t[i], 0 if none
RECURSIVE MatchFrom(_, _, _)
MatchFrom(t, j, depth) ==
    IF j > Len(t) THEN 0
    ELSE IF t[j] \in {"{", "["} THEN MatchFrom(t, j + 1, depth + 1)
    ELSE IF t[j] \in {"}", "]"} THEN
        IF depth = 1 THEN j ELSE MatchFrom(t, j + 1, depth - 1)
    ELSE MatchFrom(t, j + 1, depth)

MatchClose(t, i) == MatchFrom(t, i + 1, 1)

Composites == {h \in 1..Len(handles) : handles[h].cls \in {"obj", "arr"}}

C6_Inv ==
    \A h \in Composites :
        LET hr == handles[h]
        IN /\ sink[hr.openAt] = Opener(hr.cls)
           /\ Len(hr.closeAt) <= 1
           /\ (hr.pState = "closed") = (Len(hr.closeAt) = 1)
           /\ ~hr.live => hr.pState = "closed"
           /\ Len(hr.closeAt) = 1 =>
                /\ sink[hr.closeAt[1]] = Closer(hr.cls)
                /\ MatchClose(sink, hr.openAt) = hr.closeAt[1]
                /\ \A g \in Composites :
                     (hr.openAt < handles[g].openAt /\ handles[g].openAt < hr.closeAt[1])
                        => /\ Len(handles[g].closeAt) = 1
                           /\ handles[g].closeAt[1] < hr.closeAt[1]
           /\ Len(hr.closeAt) = 0 => MatchClose(sink, hr.openAt) = 0

\* closing or destroying a composite that is already closed writes nothing
C6_Step ==
    \A h \in Composites :
        (handles[h].pState = "closed"
         /\ (bop'.h = h \/ (handles[h].live /\ ~handles'[h].live)))
            => sink' = sink /\ active' = active /\ handles'[h].closeAt = handles[h].closeAt

\* C6: every composite opened through a handle gets exactly one closing bracket
\* of its own kind, written by close(), by its destructor or by force-closing;
\* closing or destroying it again writes nothing; a nested composite is closed
\* before the composite containing it.
C6_ClosedExactlyOnce == []C6_Inv /\ [][C6_Step]_vars

\* an array nested in an object was force-closed by closing the object, and
\* its handle was destroyed afterwards
C6_Witness ==
    /\ Len(handles) >= 3
    /\ handles[2].cls = "obj" /\ handles[3].cls = "arr"
    /\ handles[3].closeAt # <<>> /\ handles[2].closeAt # <<>>
    /\ handles[3].closeAt[1] < handles[2].closeAt[1]
    /\ handles[2].live /\ ~handles[3].live
    /\ bop.op = "drop"

\* the handle is closed, or is a value handle whose stamp is not that of a
\* pending value
ClosedOrStale(h) ==
    \/ handles[h].pState = "closed"
    \/ /\ handles[h].pState = "value"
       /\ (handles[h].pStamp # valueStamp \/ ~awaitingValue)

C10_Step ==
    (bop'.h \in 1..Len(handles) /\ bop'.op \in CompOps \cup ValueOps \cup {"call"}
     /\ ClosedOrStale(bop'.h))
        => bop'.res = "throw" /\ sink' = sink

\* C10: a mutating operation invoked on a handle that is closed, or on a value
\* handle whose stamp no longer matches, throws the builder error.
C10_ClosedOrStaleThrows == [][C10_Step]_vars

\* an operation on a closed object handle and one on a stale value handle threw
C10_Witness ==
    /\ bop.res = "throw"
    /\ handles[bop.h].pState = "value" /\ handles[bop.h].pStamp # valueStamp
    /\ \E g \in Composites : handles[g].live /\ handles[g].pState = "closed"

\* ======================================================================
\* Streaming reader (json-reader.h) over the deserializer (json-deserializer.h)
\* ======================================================================

\* The input is a sequence of tokens. A number, a string or a constant is one
\* token, "ws" is a run of whitespace.
StrToks == {"a", "b", "c", "k"}
NumToks == {"1", "2", "10", "20", "30"}
WordToks == {"null", "true", "false"}

Doc1 == <<"{", "a", ":", "1", ",", "b", ":", "[", "10", ",", "20", ",", "30", "]",
          ",", "c", ":", "2", "}">>
Doc2 == <<"[", "[", "[", "1", "]", "]", ",", "ws", "{", "k", ":", "2", "}", "]", "ws">>
Doc3 == <<"ws", "1", "ws">>
Doc4 == <<"[", "]">>
\* DocDup: an object with the same key twice
\* malformed documents: something after the top-level value, a missing
\* element, a key without its colon inside a nested object
DocDup == <<"{", "a", ":", "1", ",", "a", ":", "2", "}">>
DocTrail == <<"[", "]", "ws", "1">>
DocTrailPrim == <<"1", "ws", "1">>
DocGap == <<"[", "1", ",", ",", "2", "]">>
DocKey == <<"[", "{", "a", ",", "b", ":", "1", "}", "]">>
BadDocs == {DocTrail, DocTrailPrim, DocGap, DocKey}
Docs == {Doc1, Doc2, Doc3, Doc4, DocDup} \cup BadDocs

MaxVals == 2    \* reader: Reader values the caller holds copies of

\* a json::Reader value: the variant's alternative, the captured primitive or
\* the stamp of the reference; src, at and ev are history: the Instance a
\* reference was issued for, the token the value started at, and the number
\* of pushes and pops that had happened when it was issued
RValue(kind, val, stamp, src, at, ev) ==
    [kind |-> kind, val |-> val, stamp |-> stamp, src |-> src, at |-> at, ev |-> ev]
RNull == RValue("null", "null", 0, 0, 0, 0)

\* the reader's state as one record; ret and val are the result of the last
\* call, err the exception it ended with; uaf is what an access to a deleted
\* Instance does during the call
RState ==
    [input |-> input, pPosition |-> pPosition, pActive |-> pActive,
     pNextStamp |-> pNextStamp, insts |-> insts, destroyed |-> destroyed,
     checkedDone |-> checkedDone, nChecks |-> nChecks, nEvents |-> nEvents,
     err |-> "none", ret |-> FALSE, val |-> RNull, uaf |-> "fault"]

\* ---------------- detail::Deserializer ----------------

RECURSIVE SkipWs(_, _)
SkipWs(t, p) == IF p < Len(t) /\ t[p + 1] = "ws" THEN SkipWs(t, p + 1) ELSE p

\* fNextToken: the token under the cursor, whitespace skipped on request
fSkip(st, skipWhiteSpace) ==
    IF skipWhiteSpace THEN [st EXCEPT !.pPosition = SkipWs(st.input, @)] ELSE st
fToken(st) == IF st.pPosition < Len(st.input) THEN st.input[st.pPosition + 1] ELSE "EOF"
fConsume(st) == [st EXCEPT !.pPosition = @ + 1]
fFail(st) == [st EXCEPT !.err = "deserialize"]

closeElseSeparator(st, obj) ==
    LET s == fSkip(st, TRUE)
        c == fToken(s)
    IN IF c = (IF obj THEN "}" ELSE "]") \/ c = ","
       THEN [fConsume(s) EXCEPT !.ret = (c # ",")]
       ELSE fFail(s)

checkIsEmpty(st, obj) ==
    LET s == fSkip(st, TRUE)
        c == fToken(s)
    IN IF c = "EOF" THEN fFail(s)
       ELSE IF c # (IF obj THEN "}" ELSE "]") THEN [s EXCEPT !.ret = FALSE]
       ELSE [fConsume(s) EXCEPT !.ret = TRUE]

\* the type of the upcoming value in val.kind; an opening bracket is consumed
peekOrOpenNext(st) ==
    LET s == fSkip(st, TRUE)
        c == fToken(s)
        type == IF c = "{" THEN "obj" ELSE IF c = "[" THEN "arr"
                ELSE IF c \in StrToks THEN "str" ELSE IF c \in NumToks THEN "num"
                ELSE IF c = "null" THEN "null" ELSE IF c \in WordToks THEN "bool"
                ELSE "error"
    IN IF type = "error" THEN fFail(s)
       ELSE IF type \in {"obj", "arr"} THEN [fConsume(s) EXCEPT !.val = [RNull EXCEPT !.kind = type]]
       ELSE [s EXCEPT !.val = [RNull EXCEPT !.kind = type]]

\* readNumber, readBoolean, readNull and readString(sink, false): the token is
\* the value
readPrimitive(st) ==
    LET c == fToken(st)
    IN [fConsume(st) EXCEPT !.val = RValue(st.val.kind, c, 0, 0, st.pPosition + 1, 0)]

\* readString(sink, true): a key and its colon; the key is left in val.val
readKey(st) ==
    LET s == fSkip(st, TRUE)
        c == fToken(s)
        s1 == fSkip(fConsume(s), TRUE)
    IN IF c \notin StrToks THEN fFail(s)
       ELSE IF fToken(s1) # ":" THEN fFail(s1)
       ELSE [fConsume(s1) EXCEPT !.val = [RNull EXCEPT !.val = c]]

checkDone(st) ==
    LET s == [fSkip(st, TRUE) EXCEPT !.nChecks = @ + 1]
    IN IF fToken(s) # "EOF" THEN fFail(s) ELSE [s EXCEPT !.checkedDone = TRUE]

\* ---------------- detail::ReaderState ----------------

\* an Instance; self: it owns itself (no handle has taken it); freed, at and
\* opens are history: the object was deleted, the token of its opening
\* bracket, the number of times open() handed it out
NewInstance(object, at) ==
    [object |-> object, opened |-> FALSE, self |-> TRUE, key |-> "", value |-> RNull,
     freed |-> FALSE, at |-> at, opens |-> 0]

\* The({body : x \in {e}}) is body with x standing for e, e evaluated once
The(S) == CHOOSE r \in S : TRUE

fValue(st) ==
    The({ IF p.err # "none" THEN p
          ELSE IF p.val.kind \in {"arr", "obj"}
          THEN [p EXCEPT !.insts = Append(@, NewInstance(p.val.kind = "obj", p.pPosition)),
                         !.pActive = Append(@, Len(p.insts) + 1),
                         !.pNextStamp = @ + 1,
                         !.nEvents = @ + 1,
                         !.val = RValue(p.val.kind, "", p.pNextStamp + 1, Len(p.insts) + 1,
                                        p.pPosition, p.nEvents + 1)]
          ELSE readPrimitive(p)
        : p \in {peekOrOpenNext(st)} })

\* delete of Instance i: its key and value go with it
fDelete(st, i) ==
    [st EXCEPT !.insts[i].freed = TRUE, !.insts[i].key = "", !.insts[i].value = RNull]

\* mutation: the end of the document is not checked when the stack empties
fPopInstance_NoCheck(c, i) ==
    LET reset == IF c.insts[i].self THEN fDelete(c, i) ELSE c
    IN [reset EXCEPT !.insts[i].self = FALSE,
                     !.pActive = Pop(@), !.pNextStamp = @ + 1, !.nEvents = @ + 1,
                     !.ret = FALSE]

\* mutation: the pop of an instance does not advance the stamp
fPopInstance_SameStamp(c, i) ==
    LET reset == IF c.insts[i].self THEN fDelete(c, i) ELSE c
        popped == [reset EXCEPT !.insts[i].self = FALSE,
                                !.pActive = Pop(@), !.nEvents = @ + 1,
                                !.ret = FALSE]
    IN IF popped.pActive = <<>> THEN checkDone(popped) ELSE popped

\* fReadNextValue when the closing bracket was found: instance i is released
fPopInstance(c, i) ==
    LET reset == IF c.insts[i].self THEN fDelete(c, i) ELSE c
        popped == [reset EXCEPT !.insts[i].self = FALSE,
                                !.pActive = Pop(@), !.pNextStamp = @ + 1, !.nEvents = @ + 1,
                                !.ret = FALSE]
    IN IF popped.pActive = <<>> THEN checkDone(popped) ELSE popped

\* mutation: the value of the first child is never replaced
fReadValue_KeepFirst(k, i) ==
    The({ IF r.err # "none" THEN r
          ELSE IF r.insts[i].freed \/ r.insts[i].value.at # 0 THEN [r EXCEPT !.ret = TRUE]
          ELSE [r EXCEPT !.insts[i].value = r.val, !.ret = TRUE]
        : r \in {fValue(k)} })

\* fReadNextValue when a value follows: the key, then the value of instance i
\* (what is stored into a deleted Instance is not kept)
fReadValue(k, i) ==
    The({ IF r.err # "none" THEN r
          ELSE IF r.insts[i].freed THEN [r EXCEPT !.ret = TRUE]
          ELSE [r EXCEPT !.insts[i].value = r.val, !.ret = TRUE]
        : r \in {fValue(k)} })

fReadChild(c, i) ==
    The({ IF k.err # "none" THEN k
          ELSE IF c.insts[i].object /\ ~c.insts[i].freed
          THEN fReadValue([k EXCEPT !.insts[i].key = k.val.val], i)
          ELSE fReadValue(k, i)
        : k \in {IF c.insts[i].object THEN readKey([c EXCEPT !.insts[i].opened = TRUE])
                 ELSE [c EXCEPT !.insts[i].opened = TRUE]} })

\* what the access to a deleted Instance that is still on pActive can do: it
\* faults, or it finds the memory as the Instance left it
UafOutcomes == {"fault", "stale"}

fReadNextValue(st) ==
    IF st.insts[Top(st.pActive)].freed /\ st.uaf = "fault"
    THEN [st EXCEPT !.err = "undefined"]
    ELSE
    The({ IF c.err # "none" THEN c
          ELSE IF c.ret THEN fPopInstance(c, Top(st.pActive))
          ELSE fReadChild(c, Top(st.pActive))
        : c \in {IF st.insts[Top(st.pActive)].opened
                 THEN closeElseSeparator(st, st.insts[Top(st.pActive)].object)
                 ELSE checkIsEmpty(st, st.insts[Top(st.pActive)].object)} })

\* while (fReadNextValue(_this)) {}
RECURSIVE fReadAll(_)
fReadAll(st) ==
    The({ IF r.err = "none" /\ r.ret THEN fReadAll(r) ELSE r : r \in {fReadNextValue(st)} })

\* while (pActive.size() > index) while (fReadNextValue(_this)) {}
RECURSIVE fDrain(_, _)
fDrain(st, index) ==
    IF st.err = "none" /\ Len(st.pActive) > index
    THEN The({ fDrain(r, index) : r \in {fReadAll(st)} })
    ELSE st

\* the search of next() and close(): index of the instance on pActive, 0 if absent
fIndex(st, instance) ==
    IF \E i \in 1..Len(st.pActive) : st.pActive[i] = instance
    THEN CHOOSE i \in 1..Len(st.pActive) :
            st.pActive[i] = instance /\ \A j \in (i + 1)..Len(st.pActive) : st.pActive[j] # instance
    ELSE 0

\* mutation: the composites above the instance are not read to their end
next_NoDrain(st, instance) ==
    IF fIndex(st, instance) = 0 THEN [st EXCEPT !.err = "reader"]
    ELSE fReadNextValue(st)

next(st, instance) ==
    IF fIndex(st, instance) = 0 THEN [st EXCEPT !.err = "reader"]
    ELSE The({ IF drained.err # "none" THEN drained ELSE fReadNextValue(drained)
             : drained \in {fDrain(st, fIndex(st, instance))} })

initValue(st) ==
    The({ IF v.err = "none" /\ v.pActive = <<>> THEN checkDone(v) ELSE v : v \in {fValue(st)} })

\* mutation: an instance that was already handed out is not refused
open_NoSelfCheck(st, stamp) ==
    IF stamp # st.pNextStamp THEN [st EXCEPT !.err = "reader"]
    ELSE IF st.pActive = <<>> THEN [st EXCEPT !.err = "undefined"]
    ELSE IF st.insts[Top(st.pActive)].freed /\ st.uaf = "fault"
    THEN [st EXCEPT !.err = "undefined"]
    ELSE [st EXCEPT !.insts[Top(st.pActive)].self = FALSE,
                    !.insts[Top(st.pActive)].opens = @ + 1,
                    !.val = [RNull EXCEPT !.src = Top(st.pActive)]]

\* the instance handed out is left in val.src
open(st, stamp) ==
    IF stamp # st.pNextStamp THEN [st EXCEPT !.err = "reader"]
    ELSE IF st.pActive = <<>> THEN [st EXCEPT !.err = "undefined"]
    ELSE IF st.insts[Top(st.pActive)].freed /\ st.uaf = "fault"
    THEN [st EXCEPT !.err = "undefined"]
    ELSE IF ~st.insts[Top(st.pActive)].self THEN [st EXCEPT !.err = "reader"]
    ELSE [st EXCEPT !.insts[Top(st.pActive)].self = FALSE,
                    !.insts[Top(st.pActive)].opens = @ + 1,
                    !.val = [RNull EXCEPT !.src = Top(st.pActive)]]

\* mutation: only the composites above the instance are closed
close_KeepSelf(st, instance) ==
    IF fIndex(st, instance) = 0 THEN st ELSE fDrain(st, fIndex(st, instance))

close(st, instance) ==
    IF fIndex(st, instance) = 0 THEN st ELSE fDrain(st, fIndex(st, instance) - 1)

\* mutation: the destructor leaves the open composites unread
fDestroyState_NoDrain(st) == [st EXCEPT !.destroyed = TRUE]

\* an exception that leaves a destructor ends the program
fNoExcept(st) == IF st.err = "deserialize" THEN [st EXCEPT !.err = "terminate"] ELSE st

\* ~ReaderState
fDestroyState(st) == fNoExcept([fDrain(st, 0) EXCEPT !.destroyed = TRUE])

\* ---------------- json::Reader, json::ArrReader, json::ObjReader ----------------

Composite == {"arr", "obj"}

\* where a Reader value is taken from: a value the caller holds, or get() of a handle
Held(i) == [t |-> "val", i |-> i]
Current(h) == [t |-> "cur", i |-> h]
NoSource == [t |-> "none", i |-> 0]
ValSources ==
    {Held(i) : i \in {j \in 1..Len(rvals) : rvals[j].live}}
    \cup {Current(h) : h \in {g \in 1..Len(rhandles) : rhandles[g].live}}
GetVal(src) ==
    IF src.t = "val" THEN rvals[src.i].v ELSE insts[rhandles[src.i].inst].value

\* key() and get() of a handle on instance i: the current child
Child(st, i) == [key |-> st.insts[i].key, at |-> st.insts[i].value.at]

ROp(op, h, src, res) == [op |-> op, h |-> h, src |-> src, res |-> res]

\* some shared_ptr to the ReaderState is left: in a value the caller holds, in
\* a handle, or in the current value of an Instance that still exists
Holders(st, vals, hs) ==
    \/ \E i \in 1..Len(vals) : vals[i].live /\ vals[i].v.kind \in Composite
    \/ \E h \in 1..Len(hs) : hs[h].live /\ hs[h].pState
    \/ \E i \in 1..Len(st.insts) :
        ~st.insts[i].freed /\ st.insts[i].value.kind \in Composite

\* the last shared_ptr going away runs ~ReaderState
fRelease(st, vals, hs) ==
    IF st.err = "none" /\ ~st.destroyed /\ ~Holders(st, vals, hs) THEN fDestroyState(st)
    ELSE st

\* how a call can end other than by returning or throwing a ReaderException
Faults == {"deserialize", "terminate", "undefined"}

SetR(st, vals, hs, op) ==
    /\ pPosition' = st.pPosition
    /\ pActive' = st.pActive
    /\ pNextStamp' = st.pNextStamp
    /\ insts' = st.insts
    /\ destroyed' = st.destroyed
    /\ checkedDone' = st.checkedDone
    /\ nChecks' = st.nChecks
    /\ nEvents' = st.nEvents
    /\ rfault' = IF st.err \in Faults THEN st.err ELSE rfault
    /\ rvals' = vals
    /\ rhandles' = hs
    /\ rop' = IF st.err \in Faults THEN [op EXCEPT !.res = st.err] ELSE op
    /\ UNCHANGED <<input, bvars, dvars>>

\* an exception that leaves everything as it was
RThrows(op) ==
    /\ rop' = op
    /\ UNCHANGED <<input, pPosition, pActive, pNextStamp, insts, destroyed, rvals,
                   rhandles, checkedDone, nChecks, nEvents, rfault, bvars, dvars>>

\* no call has failed so far
Running == rfault = "none"
\* the program goes on: a DeserializeException can be caught by the caller
Alive == rfault \in {"none", "deserialize"}
LiveReaders == {h \in 1..Len(rhandles) : rhandles[h].live}

\* the states a call can start from: one per outcome of the access to a
\* deleted Instance, if there is one on pActive
RCall ==
    {[RState EXCEPT !.uaf = u] :
        u \in IF \E i \in 1..Len(pActive) : insts[pActive[i]].freed
              THEN UafOutcomes ELSE {"fault"}}

\* Reader::arr() / Reader::obj(), with the constructor of the handle
\* (an exception in the constructor destroys pInstance, popped or not, and
\* no handle comes into being)
ROpen(src, object) ==
    /\ Alive
    /\ \E v \in {GetVal(src)} :
        IF v.kind # (IF object THEN "obj" ELSE "arr")
        THEN RThrows(ROp("open", 0, src, "type"))
        ELSE \E s \in RCall : \E o \in {open(s, v.stamp)} :
            IF o.err = "reader" THEN RThrows(ROp("open", 0, src, "reader"))
            ELSE IF o.err # "none" THEN SetR(o, rvals, rhandles, ROp("open", 0, src, ""))
            ELSE \E n \in {next(o, o.val.src)} :
                 IF n.err # "none"
                 THEN SetR(fDelete(n, o.val.src), rvals, rhandles, ROp("open", 0, src, ""))
                 ELSE
                 \E hs \in {Append(rhandles, [inst |-> o.val.src, object |-> object,
                                              pState |-> n.ret, live |-> TRUE,
                                              seen |-> IF n.ret THEN <<Child(n, o.val.src)>>
                                                       ELSE <<>>])} :
                 \E st \in {fRelease(n, rvals, hs)} :
                    SetR(st, rvals, hs, ROp("open", Len(hs), src, "ok"))

ReaderArr(src) == src \in ValSources /\ ROpen(src, FALSE)
ReaderObj(src) == src \in ValSources /\ ROpen(src, TRUE)

\* a primitive accessor of a Reader value
ReaderPrim(src) ==
    /\ Alive
    /\ src \in ValSources
    /\ RThrows(ROp("prim", 0, src,
                   IF GetVal(src).kind \in Composite THEN "type" ELSE GetVal(src).val))

\* the copy constructor of a Reader value
ReaderCopy(src) ==
    /\ Alive
    /\ src \in ValSources
    /\ Len(rvals) < MaxVals
    /\ SetR(RState, Append(rvals, [v |-> GetVal(src), live |-> TRUE]), rhandles,
            ROp("copy", 0, src, "ok"))

\* the destructor of a Reader value the caller holds
ReaderDrop(i) ==
    /\ Alive
    /\ i \in 1..Len(rvals) /\ rvals[i].live
    /\ \E vals \in {[rvals EXCEPT ![i] = [v |-> RNull, live |-> FALSE]]} :
       \E s \in RCall : \E st \in {fRelease(s, vals, rhandles)} :
          SetR(st, vals, rhandles, ROp("dropValue", 0, Held(i), "ok"))

\* what a member call through the null pState can do: the access to pActive
\* faults, or it reads an empty pActive and next() throws
NullCallOutcomes == {"undefined", "reader"}

\* ArrReader::next() / ObjReader::next(); fNext through a reset pState is a
\* call through a null pointer
\* (pState is reset only when next() returned false)
HandleNext(h) ==
    /\ Alive
    /\ h \in LiveReaders
    /\ IF ~rhandles[h].pState
       THEN \E out \in NullCallOutcomes :
            IF out = "reader" THEN RThrows(ROp("next", h, NoSource, "reader"))
            ELSE SetR([RState EXCEPT !.err = out], rvals, rhandles,
                      ROp("next", h, NoSource, ""))
       ELSE \E s \in RCall : \E n \in {next(s, rhandles[h].inst)} :
            IF n.err = "reader" THEN RThrows(ROp("next", h, NoSource, "reader"))
            ELSE IF n.err # "none" THEN SetR(n, rvals, rhandles, ROp("next", h, NoSource, ""))
            ELSE \E hs \in {[rhandles EXCEPT
                               ![h].pState = n.ret,
                               ![h].seen = IF n.ret THEN Append(@, Child(n, rhandles[h].inst))
                                           ELSE @]} :
                 \E st \in {fRelease(n, rvals, hs)} :
                    SetR(st, rvals, hs,
                         ROp("next", h, NoSource, IF n.ret THEN "true" ELSE "false"))

\* ArrReader::close() / ObjReader::close()
\* (pState is reset after close() returned)
HandleClose(h) ==
    /\ Alive
    /\ h \in LiveReaders
    /\ \E s \in RCall :
       \E c \in {IF rhandles[h].pState THEN close(s, rhandles[h].inst) ELSE s} :
       \E hs \in {[rhandles EXCEPT ![h].pState = c.err # "none" /\ @]} :
       \E st \in {fRelease(c, rvals, hs)} :
          SetR(st, rvals, hs, ROp("close", h, NoSource, "ok"))

\* ~ArrReader / ~ObjReader: close, then pInstance and pState are destroyed
HandleDrop(h) ==
    /\ Alive
    /\ h \in LiveReaders
    /\ \E s \in RCall :
       \E c \in {IF rhandles[h].pState THEN fNoExcept(close(s, rhandles[h].inst)) ELSE s} :
       \E hs \in {[rhandles EXCEPT ![h].pState = FALSE, ![h].live = FALSE,
                                   ![h].seen = <<>>]} :
       \E st \in {fRelease(fDelete(c, rhandles[h].inst), rvals, hs)} :
          SetR(st, rvals, hs, ROp("drop", h, NoSource, "ok"))

\* json::Read(stream)
ReadInit ==
    \E d \in Docs :
        LET s0 == [input |-> d, pPosition |-> 0, pActive |-> <<>>, pNextStamp |-> 0,
                   insts |-> <<>>, destroyed |-> FALSE, checkedDone |-> FALSE,
                   nChecks |-> 0, nEvents |-> 0, err |-> "none", ret |-> FALSE,
                   val |-> RNull, uaf |-> "fault"]
        IN \E v \in {initValue(s0)} :
           \E vals \in {<<IF v.err = "none" THEN [v |-> v.val, live |-> TRUE]
                          ELSE [v |-> RNull, live |-> FALSE]>>} :
           \E st \in {fRelease(v, vals, <<>>)} :
           /\ input = d
           /\ pPosition = st.pPosition
           /\ pActive = st.pActive
           /\ pNextStamp = st.pNextStamp
           /\ insts = st.insts
           /\ destroyed = st.destroyed
           /\ checkedDone = st.checkedDone
           /\ nChecks = st.nChecks
           /\ nEvents = st.nEvents
           /\ rfault = st.err
           /\ rvals = vals
           /\ rhandles = <<>>
           /\ rop = ROp("Read", 0, Held(1), IF st.err = "none" THEN "ok" ELSE st.err)
           /\ BuilderIdle
           /\ DomIdle

Sources == {Held(i) : i \in 1..MaxVals} \cup {Current(h) : h \in 1..Len(rhandles)}

ReadNext ==
    \/ \E src \in Sources : ReaderArr(src)
    \/ \E src \in Sources : ReaderObj(src)
    \/ \E src \in Sources : ReaderPrim(src)
    \/ \E src \in Sources : ReaderCopy(src)
    \/ \E i \in 1..MaxVals : ReaderDrop(i)
    \/ \E h \in 1..Len(rhandles) : HandleNext(h)
    \/ \E h \in 1..Len(rhandles) : HandleClose(h)
    \/ \E h \in 1..Len(rhandles) : HandleDrop(h)

SpecReader == ReadInit /\ [][ReadNext]_vars

\* ---------------- claims about the reader ----------------

RAllDropped ==
    /\ \A i \in 1..Len(rvals) : ~rvals[i].live
    /\ \A h \in 1..Len(rhandles) : ~rhandles[h].live

\* C2: for a valid document and every pattern of opening, advancing, closing
\* and dropping, once the root reader, its copies and every handle are dropped
\* the input has been consumed to its end and checkDone has succeeded.
C2_AllDroppedConsumed ==
    (Running /\ RAllDropped)
        => /\ pPosition = Len(input)
           /\ checkedDone
           /\ pActive = <<>>

\* the root of Doc2 opened, its first child opened, both dropped in the
\* middle of the document, and the root value dropped last
C2_Witness ==
    /\ RAllDropped
    /\ input = Doc2
    /\ Len(rhandles) = 2
    /\ rop.op = "dropValue"
    /\ pPosition = Len(input) /\ checkedDone

\* index of the token that follows position p, whitespace skipped
NextTok(t, p) == SkipWs(t, p) + 1
\* index of the bracket that closes instance i
ClosePos(i) == MatchClose(input, insts[i].at)
\* index of instance i on pActive, 0 if it is not on it
ActiveIndex(i) == fIndex(RState, i)

\* no call has failed up to and including this step
NoFault == rfault' = "none"

C7_Inv == \A i \in 1..Len(insts) : insts[i].opens <= 1

C7_Step ==
    LET v == GetVal(rop'.src)
    IN /\ (rop'.op = "open" /\ rop'.res # "type" /\ NoFault)
          => /\ rop'.res \in {"ok", "reader"}
             /\ rop'.res = "ok" <=> (v.ev = nEvents /\ insts[v.src].opens = 0)
             /\ rop'.res = "ok" => /\ rhandles'[rop'.h].inst = v.src
                                   /\ Len(rhandles') = Len(rhandles) + 1
             /\ rop'.res = "reader" => UNCHANGED <<pPosition, pActive, insts, rhandles>>
       /\ (rop'.op = "prim" /\ rop'.res # "type")
          => rop'.res = IF v.at = 0 THEN "null" ELSE input[v.at]

\* C7: arr() / obj() on a value of that kind succeeds only if no composite was
\* pushed onto or popped from the active stack since the value was issued and
\* the composite was not opened before, so every composite is opened at most
\* once; otherwise it throws a reader error and changes nothing. A primitive
\* read through a value, stale or not, returns the token it captured (null for
\* the value of a handle that has read no child).
C7_OpenOnlyLatestOnce == []C7_Inv /\ [][C7_Step]_vars

\* a second obj() on the root of Doc1: the stamp still matches, because the
\* first child was a primitive, and the instance is no longer its own
C7_Witness ==
    /\ rop.op = "open" /\ rop.res = "reader"
    /\ GetVal(rop.src).stamp = pNextStamp
    /\ insts[GetVal(rop.src).src].opens = 1

C8_Premise == rop'.op = "next" /\ rop'.res \in {"true", "false"}

\* what next() on handle h has to consume, from the state before the call
C8_Expect(h) ==
    LET i == rhandles[h].inst
        idx == ActiveIndex(i)
        base == IF idx < Len(pActive) THEN ClosePos(pActive[idx + 1]) ELSE pPosition
        j == NextTok(input, base)
        j1 == IF insts[i].opened THEN NextTok(input, j) ELSE j
        at == IF insts[i].object THEN NextTok(input, NextTok(input, j1)) ELSE j1
    IN [i |-> i, idx |-> idx, base |-> base, closes |-> j = ClosePos(i),
        end |-> IF idx = 1 THEN SkipWs(input, j) ELSE j, at |-> at]

C8_Drains(e) ==
    /\ pPosition' >= e.base
    /\ IsPrefix(SubSeq(pActive, 1, e.idx - 1), pActive')
    /\ \A k \in (e.idx + 1)..Len(pActive) :
        /\ \A m \in 1..Len(pActive') : pActive'[m] # pActive[k]
        /\ ~insts'[pActive[k]].self
    /\ rop'.res = "false" <=> e.closes
    /\ e.closes => pActive' = SubSeq(pActive, 1, e.idx - 1) /\ pPosition' = e.end
    /\ ~e.closes => /\ pPosition' = e.at
                    /\ insts'[e.i].value.at = e.at
                    /\ IsPrefix(SubSeq(pActive, 1, e.idx), pActive')

C8_Step ==
    C8_Premise =>
        \E e \in {C8_Expect(rop'.h)} :
           /\ C8_Drains(e)
           /\ (~e.closes /\ input[e.at] \notin {"[", "{"}) => Top(pActive') = e.i
           /\ (~e.closes /\ input[e.at] \in {"[", "{"})
                => /\ pActive' = Append(SubSeq(pActive, 1, e.idx), insts'[e.i].value.src)
                   /\ insts'[Top(pActive')].self
                   /\ insts'[Top(pActive')].at = e.at

\* C8 (amended): next() on a composite that is on the active stack first reads
\* every composite above it to its closing bracket and pops it, then consumes
\* the called composite's own separator and child, or its closing bracket.
\* Afterwards the called composite has been popped, or is top-most, or lies
\* directly below the unopened instance of the composite child just read.
C8_NextDrainsAbove == [][C8_Step]_vars

C8_TopOrPopped ==
    C8_Premise =>
        \/ \A m \in 1..Len(pActive') : pActive'[m] # rhandles[rop'.h].inst
        \/ pActive' # <<>> /\ Top(pActive') = rhandles[rop'.h].inst

\* C8 as stated: after next() the called composite is top-most or popped.
C8_AsStated == [][C8_TopOrPopped]_vars

\* Doc2 with the root, its first child and that child's child open: next() on
\* the root drains both and reads the object that follows
C8_Witness ==
    /\ input = Doc2
    /\ rop = ROp("next", 1, NoSource, "true")
    /\ pActive = <<1, 4>>
    /\ Len(rhandles) = 3 /\ rhandles[2].pState /\ rhandles[3].pState

C9_Premise == rop'.op \in {"close", "drop"} /\ NoFault

C9_OnStack(h) == rhandles[h].pState /\ ActiveIndex(rhandles[h].inst) > 0

C9_Frame(h) ==
    ~C9_OnStack(h) => UNCHANGED <<pPosition, pActive>> /\ rop'.res = "ok"

C9_Step ==
    C9_Premise =>
        LET h == rop'.h
            i == rhandles[h].inst
            idx == ActiveIndex(i)
        IN /\ C9_Frame(h)
           /\ C9_OnStack(h)
                => /\ rop'.res = "ok"
                   /\ pActive' = SubSeq(pActive, 1, idx - 1)
                   /\ \A k \in idx..Len(pActive) : ~insts'[pActive[k]].self
                   /\ pPosition' = IF idx = 1 THEN SkipWs(input, ClosePos(i)) ELSE ClosePos(i)

\* C9 (amended): dropping or closing a composite handle that is on the active
\* stack reads everything above it and the composite itself through its closing
\* bracket and pops them, leaving the parent top-most and the cursor just
\* behind that bracket; for the root composite the stack is left empty and the
\* end-of-document check moves the cursor on over the trailing whitespace. A
\* handle that is not on the stack consumes nothing and does not throw.
C9_CloseDrains == [][C9_Step]_vars

C9_CursorBehindBracket ==
    C9_Premise =>
        /\ C9_Frame(rop'.h)
        /\ C9_OnStack(rop'.h) => pPosition' = ClosePos(rhandles[rop'.h].inst)

\* C9 as stated: the cursor is left immediately after the closing bracket.
C9_AsStated == [][C9_CursorBehindBracket]_vars

\* Doc2 with the root, its first child and that child's child open: close()
\* on the first child drains its child and stops behind its own bracket
C9_Witness ==
    /\ input = Doc2
    /\ rop = ROp("close", 2, NoSource, "ok")
    /\ pActive = <<1>>
    /\ pPosition = 6
    /\ Len(rhandles) = 3 /\ rhandles[3].pState /\ ~rhandles[2].pState

C11_Step ==
    (rop'.op = "next" /\ ActiveIndex(rhandles[rop'.h].inst) = 0)
        => rop'.res = "reader" /\ UNCHANGED <<pPosition, pActive, insts>>

\* C11: next() on a handle whose composite is no longer on the active stack
\* throws a reader error and consumes no input, whether the composite was
\* drained through an ancestor or the handle's own iteration has ended.
C11_OffStackNextThrows == [][C11_Step]_vars

C11_DrainedStep ==
    (rop'.op = "next" /\ ActiveIndex(rhandles[rop'.h].inst) = 0 /\ rhandles[rop'.h].pState)
        => rop'.res = "reader" /\ UNCHANGED <<pPosition, pActive, insts>>

\* the part of C11 the code does keep: a handle whose composite was drained
\* through an ancestor still holds pState, and next() throws
C11_DrainedNextThrows == [][C11_DrainedStep]_vars

\* ---------------- further claims about the builder ----------------

\* the handle is the root value handle or a copy of it
IsRootValue(h) == handles[h].cls = "value" /\ handles[h].slot = 1

C12_Inv == done <=> WellFormed(sink)

C12_Step ==
    /\ done => done'
    /\ (~done /\ done')
         => \/ bop'.op = "set" /\ bop'.res = "ok" /\ IsRootValue(bop'.h)
            \/ active # <<>> /\ active' = <<>> /\ ~awaitingValue'
    /\ (bop'.op = "set" /\ bop'.res = "ok" /\ IsRootValue(bop'.h)) => done'
    /\ (active # <<>> /\ active' = <<>>) => done' /\ ~awaitingValue'

\* C12: done is false from Build on, becomes true exactly when the root value
\* handle is set to a value or the last active composite is popped (no value
\* is pending then), and stays true; done holds exactly when the sink holds one
\* complete top-level value.
C12_DoneExactlyAtRootComplete == []C12_Inv /\ [][C12_Step]_vars

\* root.arr(), pushVal(), and the array dropped: [ null ] and done
C12_Witness ==
    /\ done
    /\ bop.op = "drop"
    /\ sink = <<"[", "null", "]">>

\* the tokens the serializer writes for a value on its own
ValueTokens(v) ==
    fWrite([sink |-> <<>>, pDepth |-> 0, pAlreadyHasValue |-> FALSE, pIndent |-> <<>>], v).sink

\* the separator and key in front of the next child of h: no separator in
\* front of the first child, which h has if its bracket is the last token
\* written and no value of it is pending
ChildTokens(h, key) ==
    (IF handles[h].openAt = Len(sink) /\ ~awaitingValue THEN <<>> ELSE <<",">>)
    \o (IF handles[h].cls = "obj" THEN <<key, ":">> ELSE <<>>)

C13_Premise == bop'.op \in {"add", "push"} /\ bop'.res = "ok"

C13_Step ==
    C13_Premise =>
        /\ \E key \in Keys \cup {""}, v \in JsonValues :
             sink' = sink \o ForcedTokens(bop'.h) \o ChildTokens(bop'.h, key) \o ValueTokens(v)
        /\ Len(handles') = Len(handles)
        /\ Len(stamps') = Len(stamps)
        /\ valueStamp' = valueStamp
        /\ ~awaitingValue'
        /\ active' = SubSeq(active, 1, StackIndex(bop'.h))

\* C13 (amended): add(k, v) and push(v) write, after the null of a pending
\* value and the closing brackets of the composites above, the separator or
\* key and the complete value in one step; they issue no value handle and do
\* not advance the value stamp. awaiting-value is false afterwards: unchanged
\* if no value was pending, cleared by the capture if one was.
C13_ImmediateWrite == [][C13_Step]_vars

C13_KeepsAwaiting ==
    C13_Premise => awaitingValue' = awaitingValue /\ Len(handles') = Len(handles)

\* C13 as stated: awaiting-value is left exactly as it was before the call.
C13_AsStated == [][C13_KeepsAwaiting]_vars

\* o.addVal("p") left pending, then o.add("q", 1)
C13_Witness ==
    /\ bop.op = "add" /\ bop.res = "ok"
    /\ sink = <<"{", "p", ":", "null", ",", "q", ":", "1">>
    /\ ~awaitingValue

\* the handles that go out of scope in this step
Dropped == {h \in 1..Len(handles) : handles[h].live /\ ~handles'[h].live}

C14_Premise == bop'.op = "drop" /\ \E h \in Dropped : handles[h].cls = "value"

C14_Step ==
    /\ C14_Premise =>
         /\ bop'.res = "ok"
         /\ UNCHANGED <<sink, pDepth, pAlreadyHasValue, active, valueStamp,
                        awaitingValue, done, stamps>>
         /\ \A h \in 1..Len(handles) : handles'[h].pState = handles[h].pState
    /\ (\E i \in 1..Len(stamps) : ~stamps[i].nulled /\ stamps'[i].nulled) =>
         /\ awaitingValue
         /\ ~C14_Premise
         /\ IsPrefix(sink \o <<"null">>, sink')

\* C14: letting go of a value handle, current or stale, writes nothing and
\* leaves the active stack, the value stamp, awaiting-value and done as they
\* were; the null of an abandoned position is written only by a later
\* operation, one that finds awaiting-value set, as its first token.
C14_ValueDropIsSilent == [][C14_Step]_vars

\* b.arr().pushVal() let go while it is the pending value
C14_Witness ==
    /\ bop.op = "drop" /\ awaitingValue /\ sink = <<"[">>
    /\ \E h \in 1..Len(handles) : handles[h].cls = "value" /\ handles[h].pStamp = valueStamp
    /\ \A h \in 1..Len(handles) :
         (handles[h].cls = "value" /\ handles[h].pStamp = valueStamp) => ~handles[h].live

\* ---------------- further claims about the reader ----------------

\* the top-level value has been read, or at least begun
RootRead == pPosition > SkipWs(input, 0)
\* only whitespace is left in front of the cursor
AtEnd(p) == SkipWs(input, p) = Len(input)

C15_Inv ==
    /\ nChecks <= 1
    /\ nChecks = 1 => pActive = <<>>
    /\ (pActive = <<>> /\ RootRead) => nChecks = 1
    /\ checkedDone <=> (nChecks = 1 /\ pPosition = Len(input))
    /\ (nChecks = 1 /\ ~checkedDone) => ~AtEnd(pPosition) /\ rfault \in {"deserialize", "terminate"}

C15_Step ==
    /\ nChecks' # nChecks <=> (pActive # <<>> /\ pActive' = <<>>)
    /\ nChecks' # nChecks =>
         /\ nChecks' = nChecks + 1
         /\ IF AtEnd(pPosition') THEN checkedDone' /\ rop'.res \notin Faults
            ELSE ~checkedDone' /\ rop'.res \in {"deserialize", "terminate"}

YieldsChild ==
    \/ rop'.op = "next" /\ rop'.res = "true"
    \/ rop'.op = "open" /\ rop'.res = "ok" /\ rhandles'[rop'.h].pState

C17_Step ==
    (rfault = "deserialize" /\ rop'.op \in {"next", "open", "close", "drop"})
        => pPosition' = pPosition /\ ~YieldsChild

\* C17: once a reader operation has failed with a DeserializeException, no
\* later next(), arr() / obj(), close() or drop of a handle of that reader
\* makes a further child available or consumes further input.
C17_InertAfterError == [][C17_Step]_vars

\* the members of a composite of the document t, from the first token of a
\* member on: the key (objects) and the index of the first token of the value
RECURSIVE MembersFrom(_, _, _)
MembersFrom(t, first, obj) ==
    LET v == IF obj THEN NextTok(t, NextTok(t, first)) ELSE first
        e == IF t[v] \in {"[", "{"} THEN MatchClose(t, v) ELSE v
        sep == NextTok(t, e)
        m == [key |-> IF obj THEN t[first] ELSE "", at |-> v]
    IN IF first > Len(t) \/ v > Len(t) THEN <<>>
       ELSE IF e = 0 THEN <<m>>
       ELSE IF sep <= Len(t) /\ t[sep] = "," THEN <<m>> \o MembersFrom(t, NextTok(t, sep), obj)
       ELSE <<m>>

\* the members of the composite read by instance i, in document order
Members(i) ==
    LET first == NextTok(input, insts[i].at)
    IN IF first > Len(input) \/ input[first] \in {"]", "}"} THEN <<>>
       ELSE MembersFrom(input, first, insts[i].object)

C16_Inv ==
    Running =>
        \A h \in LiveReaders :
            LET i == rhandles[h].inst
            IN /\ IsPrefix(rhandles[h].seen, Members(i))
               /\ ActiveIndex(i) > 0 =>
                    /\ rhandles[h].pState /\ rhandles[h].seen # <<>>
                    /\ rhandles[h].seen[Len(rhandles[h].seen)] = Child(RState, i)

C16_Step ==
    LET h == rop'.h
    IN /\ (rop'.op = "open" /\ rop'.res = "ok" /\ NoFault) =>
            LET m == Members(rhandles'[h].inst)
            IN /\ rhandles'[h].seen = SubSeq(m, 1, IF m = <<>> THEN 0 ELSE 1)
               /\ rhandles'[h].pState <=> m # <<>>
       /\ (rop'.op = "next" /\ rop'.res \in {"true", "false"} /\ NoFault) =>
            LET m == Members(rhandles[h].inst)
            IN /\ rop'.res = "false" <=> rhandles[h].seen = m
               /\ rop'.res = "false" => rhandles'[h].seen = m /\ ~rhandles'[h].pState
               /\ rop'.res = "true" =>
                    rhandles'[h].seen = SubSeq(m, 1, Len(rhandles[h].seen) + 1)

\* C16: the child a handle has after opening followed by the children it has
\* after each of its next() calls that return true are the members of its
\* composite in document order, each once, an object's members with their
\* keys and a repeated key once per occurrence; next() returns false exactly
\* when the last member was the current child, and the handle of an empty
\* composite is closed() right after opening.
C16_ChildrenInDocumentOrder == []C16_Inv /\ [][C16_Step]_vars

\* {"a":1,"a":2} read to its end through the handle of the root
C16_Witness ==
    /\ input = DocDup /\ rop = ROp("next", 1, NoSource, "false")
    /\ rhandles[1].seen = <<[key |-> "a", at |-> 4], [key |-> "a", at |-> 8]>>
    /\ ~rhandles[1].pState

\* [] opened: the handle is closed at once
C16_WitnessEmpty ==
    /\ input = Doc4 /\ rop.op = "open" /\ rop.res = "ok"
    /\ rhandles[1].seen = <<>> /\ ~rhandles[1].pState

(***************************************************************************)
(* The DOM: json::Value (json-value.h), json::Serialize (json-serialize.h) *)
(* and json::Deserialize (json-deserialize.h over json-deserializer.h).    *)
(*                                                                         *)
(* A text is a sequence of code points. A string is a sequence of code     *)
(* points as well. The integer types are modelled with IntBits bits in     *)
(* place of 64 and the double with RealBits bits of mantissa in place of   *)
(* 53; a real is held as its number of halves.                             *)
(***************************************************************************)
IntBits == 5    \* width of json::UNum and json::INum in the model
RealBits == 3   \* significant bits of json::Real in the model

RECURSIVE Pow2(_)
Pow2(k) == IF k = 0 THEN 1 ELSE 2 * Pow2(k - 1)

UNumMax == Pow2(IntBits) - 1
INumMax == Pow2(IntBits - 1) - 1
INumMin == 0 - Pow2(IntBits - 1)

Abs(i) == IF i < 0 THEN 0 - i ELSE i

\* conversion of a signed to the unsigned integer type
ToUnsigned(i) == i % Pow2(IntBits)

\* a non-negative integer rounded to RealBits significant bits, ties to even
RoundMant(a) ==
    LET sh == CHOOSE k \in 0..(IntBits + 2) :
                  /\ a \div Pow2(k) < Pow2(RealBits)
                  /\ k > 0 => a \div Pow2(k - 1) >= Pow2(RealBits)
        q == a \div Pow2(sh)
        rem == a % Pow2(sh)
        up == sh > 0 /\ (2 * rem > Pow2(sh) \/ (2 * rem = Pow2(sh) /\ q % 2 = 1))
    IN (IF up THEN q + 1 ELSE q) * Pow2(sh)

\* conversion of an integer to json::Real, in halves
ToReal(i) == IF i < 0 THEN 0 - 2 * RoundMant(0 - i) ELSE 2 * RoundMant(i)

\* the alternatives of json::Value
DBool(b) == [DNull EXCEPT !.kind = "bool", !.n = IF b THEN 1 ELSE 0]
DUNum(u) == [DNull EXCEPT !.kind = "unum", !.n = u]
DINum(i) == [DNull EXCEPT !.kind = "inum", !.n = i]
DReal(h) == [DNull EXCEPT !.kind = "real", !.n = h]
DStr(s) == [DNull EXCEPT !.kind = "str", !.s = s]
DArr(items) == [DNull EXCEPT !.kind = "arr", !.items = items]
\* an object: its entries [key, value], the keys distinct
DObj(items) == [DNull EXCEPT !.kind = "obj", !.items = items]
Entry(key, value) == [key |-> key, value |-> value]

\* Value::operator==; the containers compare as std::vector and
\* std::unordered_map do
RECURSIVE ValueEq(_, _)
ValueEq(a, b) ==
    IF a.kind = "bool" THEN b.kind = "bool" /\ a.n = b.n
    ELSE IF a.kind = "obj" THEN
        /\ b.kind = "obj"
        /\ Len(a.items) = Len(b.items)
        /\ \A i \in 1..Len(a.items) : \E j \in 1..Len(b.items) :
              /\ a.items[i].key = b.items[j].key
              /\ ValueEq(a.items[i].value, b.items[j].value)
    ELSE IF a.kind = "arr" THEN
        /\ b.kind = "arr"
        /\ Len(a.items) = Len(b.items)
        /\ \A i \in 1..Len(a.items) : ValueEq(a.items[i], b.items[i])
    ELSE IF a.kind = "str" THEN b.kind = "str" /\ a.s = b.s
    ELSE IF a.kind = "null" THEN b.kind = "null"
    ELSE IF a.kind = "real" THEN
        IF b.kind = "real" THEN a.n = b.n
        ELSE IF b.kind \in {"inum", "unum"} THEN a.n = ToReal(b.n)
        ELSE FALSE
    ELSE IF a.kind = "inum" THEN
        IF b.kind = "real" THEN ToReal(a.n) = b.n
        ELSE IF b.kind = "inum" THEN a.n = b.n
        ELSE IF b.kind = "unum" THEN ToUnsigned(a.n) = b.n
        ELSE FALSE
    ELSE IF a.kind = "unum" THEN
        IF b.kind = "real" THEN ToReal(a.n) = b.n
        ELSE IF b.kind = "inum" THEN a.n = ToUnsigned(b.n)
        ELSE IF b.kind = "unum" THEN a.n = b.n
        ELSE FALSE
    ELSE FALSE

\* ---------------- detail::Serializer of json-serialize.h ----------------

\* the serializer's state: the text written, pDepth, pAlreadyHasValue and
\* whether pIndent is non-empty (it is one tab then)
JsState(indent) == [out |-> <<>>, pDepth |-> 0, pAlreadyHasValue |-> FALSE, pIndent |-> indent]

jsPut(st, chars) == [st EXCEPT !.out = @ \o chars]

RECURSIVE Indentation(_)
Indentation(depth) == IF depth = 0 THEN <<>> ELSE <<9>> \o Indentation(depth - 1)

jsWriteNewline(st) ==
    IF ~st.pIndent THEN st ELSE jsPut(st, <<10>> \o Indentation(st.pDepth))

\* "0123456789abcdef"[n]
HexChar(n) == IF n < 10 THEN 48 + n ELSE 87 + n

\* fWriteJsonU16: \u and four hexits
jsWriteJsonU16(val) ==
    <<92, 117, HexChar((val \div 4096) % 16), HexChar((val \div 256) % 16),
      HexChar((val \div 16) % 16), HexChar(val % 16)>>

\* str::Transcode to char16_t of one code point: nothing for a code point
\* that cannot be encoded, a surrogate pair above the BMP
Utf16(cp) ==
    IF cp > 1114111 \/ (cp >= 55296 /\ cp <= 57343) THEN <<>>
    ELSE IF cp >= 65536
    THEN <<55296 + ((cp - 65536) \div 1024), 56320 + ((cp - 65536) % 1024)>>
    ELSE <<cp>>

\* what fWriteString writes for one code point of the string
jsWriteChar(cp) ==
    LET out == Utf16(cp)
        c == out[1]
        e == IF c = 8 THEN 98 ELSE IF c = 12 THEN 102 ELSE IF c = 10 THEN 110
             ELSE IF c = 13 THEN 110 ELSE IF c = 9 THEN 116 ELSE c
    IN IF Len(out) = 0 THEN <<>>
       ELSE IF Len(out) = 2 THEN jsWriteJsonU16(out[1]) \o jsWriteJsonU16(out[2])
       ELSE IF c \in {8, 12, 10, 13, 9, 92, 34} THEN <<92, e>>
       ELSE IF c >= 32 /\ c <= 126 THEN <<c>>
       ELSE jsWriteJsonU16(c)

RECURSIVE jsWriteChars(_)
jsWriteChars(s) == IF s = <<>> THEN <<>> ELSE jsWriteChar(Head(s)) \o jsWriteChars(Tail(s))

jsWriteString(st, s) == jsPut(st, <<34>> \o jsWriteChars(s) \o <<34>>)

\* std::to_chars of an unsigned value
RECURSIVE Digits(_)
Digits(n) == IF n < 10 THEN <<48 + n>> ELSE Digits(n \div 10) \o <<48 + (n % 10)>>

\* std::to_chars of a signed value
SignedDigits(i) == IF i < 0 THEN <<45>> \o Digits(0 - i) ELSE Digits(i)

\* std::to_chars(general) of a finite real, given in halves: the shortest
\* text that reads back as the same real
RealDigits(h) ==
    (IF h < 0 THEN <<45>> ELSE <<>>) \o Digits(Abs(h) \div 2)
    \o (IF Abs(h) % 2 = 1 THEN <<46, 53>> ELSE <<>>)

\* addPrimitive
jsAddPrimitive(st, v) ==
    IF v.kind = "bool"
    THEN jsPut(st, IF v.n = 1 THEN <<116, 114, 117, 101>> ELSE <<102, 97, 108, 115, 101>>)
    ELSE IF v.kind = "null" THEN jsPut(st, <<110, 117, 108, 108>>)
    ELSE IF v.kind = "real" THEN jsPut(st, RealDigits(v.n))
    ELSE IF v.kind = "inum" THEN jsPut(st, SignedDigits(v.n))
    ELSE IF v.kind = "unum" THEN jsPut(st, Digits(v.n))
    ELSE jsWriteString(st, v.s)

jsBegin(st, obj) ==
    jsPut([st EXCEPT !.pDepth = @ + 1, !.pAlreadyHasValue = FALSE], IF obj THEN <<123>> ELSE <<91>>)

jsSeparator(st) ==
    [(IF st.pAlreadyHasValue THEN jsPut(st, <<44>>) ELSE st) EXCEPT !.pAlreadyHasValue = TRUE]

jsObjectKey(st, key) ==
    jsPut(jsWriteString(jsWriteNewline(jsSeparator(st)), key),
          IF st.pIndent THEN <<58, 32>> ELSE <<58>>)

jsArrayValue(st) == jsWriteNewline(jsSeparator(st))

jsEnd(st, obj) ==
    jsPut([(IF st.pAlreadyHasValue
            THEN jsWriteNewline([st EXCEPT !.pDepth = @ - 1])
            ELSE [st EXCEPT !.pDepth = @ - 1])
           EXCEPT !.pAlreadyHasValue = TRUE],
          IF obj THEN <<125>> ELSE <<93>>)

\* ---------------- detail::JsonSerializer ----------------

\* json::INum(u): the value of the same IntBits bits read as signed
ToSigned(u) == IF u > INumMax THEN u - Pow2(IntBits) ELSE u

\* Value::isINum() const: true of both integer alternatives
IsINum(v) == v.kind \in {"unum", "inum"}

\* Value::inum() const of a value that holds an integer
INumOf(v) == IF v.kind = "unum" THEN ToSigned(v.n) ELSE v.n

\* fWriteValue, fWriteArray and fWriteObject; an object's entries are written
\* in the order the model holds them in
RECURSIVE jsWriteValue(_, _), jsWriteEntries(_, _, _, _)
jsWriteEntries(st, items, i, obj) ==
    IF i > Len(items) THEN st
    ELSE jsWriteEntries(
            IF obj THEN jsWriteValue(jsObjectKey(st, items[i].key), items[i].value)
            ELSE jsWriteValue(jsArrayValue(st), items[i]),
            items, i + 1, obj)

jsWriteValue(st, v) ==
    IF v.kind \in {"arr", "obj"}
    THEN jsEnd(jsWriteEntries(jsBegin(st, v.kind = "obj"), v.items, 1, v.kind = "obj"),
               v.kind = "obj")
    ELSE IF v.kind # "str" /\ IsINum(v) THEN jsAddPrimitive(st, DINum(INumOf(v)))
    ELSE jsAddPrimitive(st, v)

\* json::Serialize into a string sink
Serialize(v, indent) == jsWriteValue(JsState(indent), v).out

\* ---------------- detail::Deserializer, code point by code point ----------------

\* the deserializer over a text: pos code points are consumed; ret, type,
\* val and str are the result of the last call, err the exception it ended with
DsState(text) ==
    [text |-> text, pos |-> 0, err |-> "none", ret |-> FALSE, type |-> "",
     val |-> DNull, str |-> <<>>, num |-> 0, entries |-> <<>>]

WhiteSpace == {32, 10, 13, 9}

RECURSIVE DsSkipWs(_, _)
DsSkipWs(t, p) == IF p < Len(t) /\ t[p + 1] \in WhiteSpace THEN DsSkipWs(t, p + 1) ELSE p

\* the code point under the cursor, -1 (str::Invalid) at the end of the text
dsTok(st) == IF st.pos < Len(st.text) THEN st.text[st.pos + 1] ELSE 0 - 1
dsFail(st) == [st EXCEPT !.err = "deserialize"]
dsConsume(st) == [st EXCEPT !.pos = @ + 1]

\* fNextToken<AllowEndOfStream>(skipWhiteSpace): the token is dsTok of the result
dsNextToken(st, skipWhiteSpace, allowEndOfStream) ==
    The({ IF dsTok(s) = 0 - 1 /\ ~allowEndOfStream THEN dsFail(s) ELSE s
        : s \in {IF skipWhiteSpace THEN [st EXCEPT !.pos = DsSkipWs(st.text, @)] ELSE st} })

\* fConsumeAndNext(skipWhiteSpace)
dsConsumeAndNext(st, skipWhiteSpace) == dsNextToken(dsConsume(st), skipWhiteSpace, FALSE)

dsCloseElseSeparator(st, obj) ==
    The({ IF s.err # "none" THEN s
          ELSE IF dsTok(s) = (IF obj THEN 125 ELSE 93) \/ dsTok(s) = 44
          THEN [dsConsume(s) EXCEPT !.ret = (dsTok(s) # 44)]
          ELSE dsFail(s)
        : s \in {dsNextToken(st, TRUE, FALSE)} })

dsCheckIsEmpty(st, obj) ==
    The({ IF s.err # "none" THEN s
          ELSE IF dsTok(s) # (IF obj THEN 125 ELSE 93) THEN [s EXCEPT !.ret = FALSE]
          ELSE [dsConsume(s) EXCEPT !.ret = TRUE]
        : s \in {dsNextToken(st, TRUE, FALSE)} })

dsPeekOrOpenNext(st) ==
    The({ IF s.err # "none" THEN s
          ELSE IF dsTok(s) \in {123, 91}
          THEN [dsConsume(s) EXCEPT !.type = IF dsTok(s) = 123 THEN "object" ELSE "array"]
          ELSE IF dsTok(s) = 34 THEN [s EXCEPT !.type = "string"]
          ELSE IF dsTok(s) = 45 \/ (dsTok(s) >= 48 /\ dsTok(s) <= 57)
          THEN [s EXCEPT !.type = "inumber"]
          ELSE IF dsTok(s) \in {110, 116, 102}
          THEN [s EXCEPT !.type = IF dsTok(s) = 110 THEN "null" ELSE "boolean"]
          ELSE dsFail(s)
        : s \in {dsNextToken(st, TRUE, FALSE)} })

\* fCheckWord: the first character is verified already
RECURSIVE dsCheckWord(_, _, _)
dsCheckWord(st, word, i) ==
    IF i > Len(word) THEN dsConsume(st)
    ELSE The({ IF s.err # "none" THEN s
               ELSE IF dsTok(s) # word[i] THEN dsFail(s)
               ELSE dsCheckWord(s, word, i + 1)
             : s \in {dsConsumeAndNext(st, FALSE)} })

dsReadNull(st) == [dsCheckWord(st, <<110, 117, 108, 108>>, 2) EXCEPT !.val = DNull]

dsReadBoolean(st) ==
    IF dsTok(st) = 116
    THEN [dsCheckWord(st, <<116, 114, 117, 101>>, 2) EXCEPT !.val = DBool(TRUE)]
    ELSE [dsCheckWord(st, <<102, 97, 108, 115, 101>>, 2) EXCEPT !.val = DBool(FALSE)]

IsDigit(c) == c >= 48 /\ c <= 57

\* mutation: digits are read after a leading zero
NumStep_ZeroRun(state, c) ==
    IF c = 45 /\ state \in {"preSign", "preExpSign"}
    THEN (IF state = "preSign" THEN "preDigits" ELSE "preExponent")
    ELSE IF c = 43 /\ state = "preExpSign" THEN "preExponent"
    ELSE IF c = 46 /\ state \in {"inDigits", "postDigits"} THEN "preFraction"
    ELSE IF c \in {101, 69} /\ state \in {"inDigits", "postDigits", "inFraction"}
    THEN "preExpSign"
    ELSE IF IsDigit(c)
    THEN (IF state \in {"preSign", "preDigits"}
          THEN (IF c = 48 THEN "postDigits" ELSE "inDigits")
          ELSE IF state = "preFraction" THEN "inFraction"
          ELSE IF state \in {"preExpSign", "preExponent"} THEN "inExponent"
          ELSE state)
    ELSE ""

\* one step of the state machine of readNumber: the next state, "" if the
\* character does not continue the number
NumStep(state, c) ==
    IF c = 45 /\ state \in {"preSign", "preExpSign"}
    THEN (IF state = "preSign" THEN "preDigits" ELSE "preExponent")
    ELSE IF c = 43 /\ state = "preExpSign" THEN "preExponent"
    ELSE IF c = 46 /\ state \in {"inDigits", "postDigits"} THEN "preFraction"
    ELSE IF c \in {101, 69} /\ state \in {"inDigits", "postDigits", "inFraction"}
    THEN "preExpSign"
    ELSE IF IsDigit(c) /\ state # "postDigits"
    THEN (IF state \in {"preSign", "preDigits"}
          THEN (IF c = 48 THEN "postDigits" ELSE "inDigits")
          ELSE IF state = "preFraction" THEN "inFraction"
          ELSE IF state \in {"preExpSign", "preExponent"} THEN "inExponent"
          ELSE state)
    ELSE ""

\* the loop of readNumber: type is the state, str the buffer
RECURSIVE dsNumLoop(_)
dsNumLoop(st) ==
    The({ IF n = "" THEN st
          ELSE dsNumLoop([dsConsume(st) EXCEPT !.type = n, !.str = Append(@, dsTok(st))])
        : n \in {NumStep(st.type, dsTok(st))} })

RECURSIVE DigitsVal(_)
DigitsVal(d) ==
    IF d = <<>> THEN 0 ELSE 10 * DigitsVal(SubSeq(d, 1, Len(d) - 1)) + (d[Len(d)] - 48)

RECURSIVE Pow10(_)
Pow10(k) == IF k = 0 THEN 1 ELSE 10 * Pow10(k - 1)

\* first index of an element of set in seq, 0 if there is none
IndexOf(seq, set) ==
    IF \E i \in 1..Len(seq) : seq[i] \in set
    THEN CHOOSE i \in 1..Len(seq) : seq[i] \in set /\ \A j \in 1..(i - 1) : seq[j] \notin set
    ELSE 0

\* the non-negative rational n / d as a real, in halves: rounded to RealBits
\* significant bits, ties to even
RoundRat(n, d) ==
    LET sh == CHOOSE k \in 0..(4 * IntBits) :
                  /\ (2 * n) \div (d * Pow2(k)) < Pow2(RealBits)
                  /\ k > 0 => (2 * n) \div (d * Pow2(k - 1)) >= Pow2(RealBits)
        unit == d * Pow2(sh)
        q == (2 * n) \div unit
        rem == 2 * n - q * unit
        up == 2 * rem > unit \/ (2 * rem = unit /\ q % 2 = 1)
    IN (IF up THEN q + 1 ELSE q) * Pow2(sh)

\* the largest magnitude of a finite json::Real and infinity, in halves, and
\* the decimal exponent beyond which a text is out of range whatever its digits
RealLimit == Pow2(4 * IntBits)
RealInf == 2 * RealLimit
MaxExp10 == Len(Digits(RealLimit))

\* str::ParseNumTo of an accepted number text to json::Real, in halves
ParseReal(buf) ==
    LET neg == buf[1] = 45
        body == IF neg THEN Tail(buf) ELSE buf
        e == IndexOf(body, {101, 69})
        mant == IF e = 0 THEN body ELSE SubSeq(body, 1, e - 1)
        expo == IF e = 0 THEN <<>> ELSE SubSeq(body, e + 1, Len(body))
        dot == IndexOf(mant, {46})
        ip == IF dot = 0 THEN mant ELSE SubSeq(mant, 1, dot - 1)
        fp == IF dot = 0 THEN <<>> ELSE SubSeq(mant, dot + 1, Len(mant))
        eneg == expo # <<>> /\ expo[1] = 45
        ev == DigitsVal(IF expo # <<>> /\ expo[1] \in {45, 43} THEN Tail(expo) ELSE expo)
        \* out of the range of json::Real the text reads as infinity, below
        \* its precision as zero
        h == IF DigitsVal(ip \o fp) = 0 THEN 0
             ELSE IF eneg /\ ev > MaxExp10 THEN 0
             ELSE IF ~eneg /\ Len(ip) + ev > MaxExp10 THEN RealInf
             ELSE LET n == DigitsVal(ip \o fp) * (IF eneg THEN 1 ELSE Pow10(ev))
                      d == Pow10(Len(fp)) * (IF eneg THEN Pow10(ev) ELSE 1)
                  IN IF (2 * n) \div d > RealLimit THEN RealInf ELSE RoundRat(n, d)
    IN IF neg THEN 0 - h ELSE h

\* mutation: an unsigned text out of range wraps instead of becoming a real
NumberValue_Wraps(state, buf) ==
    IF state \in {"inDigits", "postDigits"} /\ buf[1] = 45
       /\ 0 - DigitsVal(Tail(buf)) >= INumMin
    THEN DINum(0 - DigitsVal(Tail(buf)))
    ELSE IF state \in {"inDigits", "postDigits"} /\ buf[1] # 45
    THEN DUNum(DigitsVal(buf) % Pow2(IntBits))
    ELSE DReal(ParseReal(buf))

\* the value of an accepted number text: an integer of its kind if it is
\* written as one and fits, a real otherwise
NumberValue(state, buf) ==
    IF state \in {"inDigits", "postDigits"} /\ buf[1] = 45
       /\ 0 - DigitsVal(Tail(buf)) >= INumMin
    THEN DINum(0 - DigitsVal(Tail(buf)))
    ELSE IF state \in {"inDigits", "postDigits"} /\ buf[1] # 45 /\ DigitsVal(buf) <= UNumMax
    THEN DUNum(DigitsVal(buf))
    ELSE DReal(ParseReal(buf))

\* pBuffer is str during the loop; the caller's str is restored afterwards
dsReadNumber(st) ==
    The({ IF s.type \in {"preSign", "preDigits", "preFraction", "preExpSign", "preExponent"}
          THEN dsFail([s EXCEPT !.str = st.str])
          ELSE [s EXCEPT !.val = NumberValue(s.type, s.str), !.str = st.str]
        : s \in {dsNumLoop([st EXCEPT !.type = "preSign", !.str = <<>>])} })

\* cp::ascii::GetRadix: the value of a hexit, 16 or more for anything else
GetRadix(c) ==
    IF IsDigit(c) THEN c - 48
    ELSE IF c >= 97 /\ c <= 102 THEN c - 87
    ELSE IF c >= 65 /\ c <= 70 THEN c - 55
    ELSE 16

\* the four hexits of a \u escape, accumulated in num
RECURSIVE dsHexits(_, _)
dsHexits(st, j) ==
    IF j = 4 THEN st
    ELSE The({ IF s.err # "none" THEN s
               ELSE IF GetRadix(dsTok(s)) >= 16 THEN dsFail(s)
               ELSE dsHexits([s EXCEPT !.num = 16 * @ + GetRadix(dsTok(s))], j + 1)
             : s \in {dsConsumeAndNext(st, FALSE)} })

\* fParseEscape: num is the character, ret tells a \u escape
dsParseEscape(st) ==
    The({ IF s.err # "none" THEN s
          ELSE IF dsTok(s) \in {34, 92, 47} THEN [s EXCEPT !.num = dsTok(s), !.ret = FALSE]
          ELSE IF dsTok(s) = 98 THEN [s EXCEPT !.num = 8, !.ret = FALSE]
          ELSE IF dsTok(s) = 102 THEN [s EXCEPT !.num = 12, !.ret = FALSE]
          ELSE IF dsTok(s) = 110 THEN [s EXCEPT !.num = 10, !.ret = FALSE]
          ELSE IF dsTok(s) = 114 THEN [s EXCEPT !.num = 13, !.ret = FALSE]
          ELSE IF dsTok(s) = 116 THEN [s EXCEPT !.num = 9, !.ret = FALSE]
          ELSE IF dsTok(s) = 117 THEN [dsHexits([s EXCEPT !.num = 0], 0) EXCEPT !.ret = TRUE]
          ELSE dsFail(s)
        : s \in {dsConsumeAndNext(st, FALSE)} })

\* cp::prop::IsControl: the general category Cc
IsControl(c) == (c >= 0 /\ c <= 31) \/ (c >= 127 /\ c <= 159)

\* the capacity of str::Encoded<char16_t>: the units of one code point
EncodedMax == 2

\* the code point a decoding error is replaced by
ErrorChar == 65533

\* str::TranscodeAllTo of the collected UTF-16 units: a surrogate pair is one
\* code point, a surrogate on its own a decoding error
RECURSIVE Transcode(_)
Transcode(seq) ==
    IF seq = <<>> THEN <<>>
    ELSE IF seq[1] < 55296 \/ seq[1] > 57343 THEN <<seq[1]>> \o Transcode(Tail(seq))
    ELSE IF Len(seq) >= 2 /\ seq[1] <= 56319 /\ seq[2] >= 56320 /\ seq[2] <= 57343
    THEN <<65536 + (seq[1] - 55296) * 1024 + (seq[2] - 56320)>> \o Transcode(Tail(Tail(seq)))
    ELSE <<ErrorChar>> \o Transcode(Tail(seq))

\* readString(sink, key): the sink is str, which keeps what it held before
RECURSIVE dsStringLoop(_, _)
RECURSIVE dsEscapeLoop(_, _, _)
dsEscapeLoop(st, key, sequence) ==
    The({ IF e.err # "none" THEN e
          ELSE The({ IF n.err # "none" THEN n
                     ELSE IF e.ret /\ dsTok(n) = 92 /\ Len(sequence) + 1 < EncodedMax
                     THEN dsEscapeLoop(n, key, Append(sequence, e.num))
                     ELSE IF e.ret
                     THEN dsStringLoop([n EXCEPT !.str = @ \o Transcode(Append(sequence, e.num))],
                                       key)
                     ELSE dsStringLoop([n EXCEPT !.str = @ \o Transcode(sequence) \o <<e.num>>],
                                       key)
                   : n \in {dsConsumeAndNext(e, FALSE)} })
        : e \in {dsParseEscape(st)} })

dsStringLoop(st, key) ==
    IF dsTok(st) = 34
    THEN (IF ~key THEN dsConsume(st)
          ELSE The({ IF s.err # "none" THEN s
                     ELSE IF dsTok(s) # 58 THEN dsFail(s)
                     ELSE dsConsume(s)
                   : s \in {dsNextToken(dsConsume(st), TRUE, FALSE)} }))
    ELSE IF IsControl(dsTok(st)) THEN dsFail(st)
    ELSE IF dsTok(st) # 92
    THEN The({ IF s.err # "none" THEN s ELSE dsStringLoop(s, key)
             : s \in {dsConsumeAndNext([st EXCEPT !.str = Append(@, dsTok(st))], FALSE)} })
    ELSE dsEscapeLoop(st, key, <<>>)

dsReadString(st, key) ==
    The({ IF s.err # "none" THEN s
          ELSE IF dsTok(s) # 34 THEN dsFail(s)
          ELSE The({ IF n.err # "none" THEN n ELSE dsStringLoop(n, key)
                   : n \in {dsConsumeAndNext(s, FALSE)} })
        : s \in {dsNextToken(st, TRUE, FALSE)} })

\* Deserializer::checkDone
dsCheckDone(st) ==
    The({ IF dsTok(s) # 0 - 1 THEN dsFail(s) ELSE s : s \in {dsNextToken(st, TRUE, TRUE)} })

\* ------------------------------------------------------------------
\* JsonDeserializer: the text is read into the value it is handed
\* ------------------------------------------------------------------

HasKey(items, key) == \E i \in 1..Len(items) : items[i].key = key

\* json::Obj::operator[]: the value of the key, a null inserted if it is new
ObjAt(items, key) ==
    IF HasKey(items, key)
    THEN items[CHOOSE i \in 1..Len(items) : items[i].key = key].value
    ELSE DNull

ObjSet(items, key, value) ==
    IF HasKey(items, key)
    THEN [i \in 1..Len(items) |->
             IF items[i].key = key THEN Entry(key, value) ELSE items[i]]
    ELSE Append(items, Entry(key, value))

\* Value::str() / arr() / obj(): fEnsureType keeps the content of a value
\* that is of the requested kind already and starts empty otherwise
EnsureStr(out) == IF out.kind = "str" THEN out.s ELSE <<>>
EnsureItems(out, kind) == IF out.kind = kind THEN out.items ELSE <<>>

RECURSIVE dsValue(_, _)
RECURSIVE dsMembers(_, _)
RECURSIVE dsElements(_, _)

\* the do-while of fObject, items being the content of out
dsMembers(st, items) ==
    The({ IF k.err # "none" THEN k
          ELSE The({ IF v.err # "none" THEN v
                     ELSE The({ IF c.err # "none" THEN c
                                ELSE IF c.ret
                                THEN [c EXCEPT !.val = DObj(ObjSet(items, k.str, v.val))]
                                ELSE dsMembers(c, ObjSet(items, k.str, v.val))
                              : c \in {dsCloseElseSeparator(v, TRUE)} })
                   : v \in {dsValue(k, ObjAt(items, k.str))} })
        : k \in {dsReadString([st EXCEPT !.str = <<>>], TRUE)} })

dsObject(st, items) ==
    The({ IF e.err # "none" THEN e
          ELSE IF e.ret THEN [e EXCEPT !.val = DObj(items)]
          ELSE dsMembers(e, items)
        : e \in {dsCheckIsEmpty(st, TRUE)} })

\* the do-while of fArray
dsElements(st, items) ==
    The({ IF v.err # "none" THEN v
          ELSE The({ IF c.err # "none" THEN c
                     ELSE IF c.ret THEN [c EXCEPT !.val = DArr(Append(items, v.val))]
                     ELSE dsElements(c, Append(items, v.val))
                   : c \in {dsCloseElseSeparator(v, FALSE)} })
        : v \in {dsValue(st, DNull)} })

dsArray(st, items) ==
    The({ IF e.err # "none" THEN e
          ELSE IF e.ret THEN [e EXCEPT !.val = DArr(items)]
          ELSE dsElements(e, items)
        : e \in {dsCheckIsEmpty(st, FALSE)} })

\* JsonDeserializer::fValue(out): val is what out holds afterwards
dsValue(st, out) ==
    The({ IF p.err # "none" THEN p
          ELSE IF p.type = "string"
          THEN The({ IF r.err # "none" THEN r ELSE [r EXCEPT !.val = DStr(r.str)]
                   : r \in {dsReadString([p EXCEPT !.str = EnsureStr(out)], FALSE)} })
          ELSE IF p.type = "object" THEN dsObject(p, EnsureItems(out, "obj"))
          ELSE IF p.type = "array" THEN dsArray(p, EnsureItems(out, "arr"))
          ELSE IF p.type = "boolean" THEN dsReadBoolean(p)
          ELSE IF p.type = "inumber" THEN dsReadNumber(p)
          ELSE dsReadNull(p)
        : p \in {dsPeekOrOpenNext(st)} })

\* json::Deserialize(stream): ok tells that no DeserializeException was thrown
Deserialize(text) ==
    The({ IF v.err # "none" THEN [ok |-> FALSE, val |-> DNull]
          ELSE The({ [ok |-> c.err = "none", val |-> IF c.err = "none" THEN v.val ELSE DNull]
                   : c \in {dsCheckDone(v)} })
        : v \in {dsValue(DsState(text), DNull)} })

\* ------------------------------------------------------------------
\* The DOM: values are serialized, deserialized and compared
\* ------------------------------------------------------------------

MaxStr == 1      \* longest string drawn from DomChars

\* '"', '\', backspace, form feed, line feed, carriage return, tab, another
\* control character, a letter and a code point above the BMP
DomChars == {34, 92, 8, 12, 10, 13, 9, 1, 97, 128512}

DomStrings ==
    UNION {[1..n -> DomChars] : n \in 0..MaxStr} \cup {<<97, 13, 98>>, <<1, 128512>>}

DomNumbers ==
    {DUNum(u) : u \in {0, 3, UNumMax}}
    \cup {DINum(i) : i \in {0 - 1, 3, INumMin, INumMax}}
    \cup {DReal(h) : h \in {1, 6, 0 - 6, 2 * Pow2(IntBits)}}

DomPrimitives ==
    {DNull, DBool(TRUE), DBool(FALSE)} \cup DomNumbers \cup {DStr(s) : s \in DomStrings}

DomContainers ==
    {DArr(<<>>), DObj(<<>>)}
    \cup {DArr(<<v>>) : v \in DomPrimitives}
    \cup {DObj(<<Entry(<<97>>, v)>>) : v \in DomPrimitives}
    \cup {DArr(<<DUNum(3), DArr(<<DStr(<<97>>)>>), DObj(<<Entry(<<98>>, DNull)>>)>>),
          DObj(<<Entry(<<97>>, DArr(<<DINum(0 - 1)>>)),
                 Entry(<<98>>, DObj(<<Entry(<<99>>, DBool(TRUE))>>))>>)}

DomValues == DomPrimitives \cup DomContainers

\* the values an object's key is given twice with
DupValues ==
    {DNull, DBool(TRUE), DUNum(3), DINum(0 - 1), DReal(1), DStr(<<97>>), DStr(<<98, 99>>),
     DArr(<<>>), DArr(<<DUNum(3)>>), DArr(<<DStr(<<97>>)>>),
     DObj(<<>>), DObj(<<Entry(<<97>>, DUNum(3))>>), DObj(<<Entry(<<98>>, DNull)>>)}

\* {"k":first,"k":last}
DupText(first, last) ==
    <<123, 34, 107, 34, 58>> \o Serialize(first, FALSE)
    \o <<44, 34, 107, 34, 58>> \o Serialize(last, FALSE) \o <<125>>

DomInit ==
    /\ BuilderIdle /\ ReaderIdle
    /\ dA \in DomValues /\ dB = DNull /\ dtext = <<>> /\ dop = DOp("idle", "", "")
    /\ ViewIdle /\ LayIdle

DomUnchanged == UNCHANGED <<bvars, rvars, vvars, lay>>

\* json::Serialize(dA, sink, indent), compact or indented by a tab
DomSerialize(indent) ==
    /\ dop.op = "idle"
    /\ dtext' = Serialize(dA, indent)
    /\ dop' = DOp("serialize", IF indent THEN "pretty" ELSE "compact", "ok")
    /\ UNCHANGED <<dA, dB>> /\ DomUnchanged

\* a text in which the key k occurs twice; dA is what the text of the last
\* occurrence deserializes to on its own
DomLoadDuplicate(first, last) ==
    /\ dop.op = "idle"
    /\ dtext' = DupText(first, last)
    /\ dA' = Deserialize(Serialize(last, FALSE)).val
    /\ dop' = DOp("load", "duplicate", "ok")
    /\ UNCHANGED dB /\ DomUnchanged

\* dB = json::Deserialize(dtext)
DomDeserialize ==
    /\ dop.op \in {"serialize", "load"}
    /\ \E r \in {Deserialize(dtext)} :
          /\ dB' = r.val
          /\ dop' = DOp("deserialize", IF dop.op = "load" THEN dop.of ELSE dop.op,
                        IF r.ok THEN "ok" ELSE "deserialize")
    /\ UNCHANGED <<dA, dtext>> /\ DomUnchanged

\* a second value to compare dA with
DomPick(v) ==
    /\ dop.op = "idle"
    /\ dB' = v
    /\ dop' = DOp("pick", "", "ok")
    /\ UNCHANGED <<dA, dtext>> /\ DomUnchanged

\* dA == dB
DomEquals ==
    /\ dop.op = "pick"
    /\ dop' = DOp("equals", "", IF ValueEq(dA, dB) THEN "true" ELSE "false")
    /\ UNCHANGED <<dA, dB, dtext>> /\ DomUnchanged

\* ---------------- the three writers of a string ----------------

\* the named escapes: the letter written after the backslash
NamedEscapes == {34, 92, 8, 12, 10, 13, 9}
EscapeLetter(c) ==
    IF c = 8 THEN 98 ELSE IF c = 12 THEN 102 ELSE IF c = 10 THEN 110
    ELSE IF c = 13 THEN 114 ELSE IF c = 9 THEN 116 ELSE c

\* cp::prop::IsPrint(c, false) of the code points the model draws
IsPrint(c) == c >= 32 /\ ~IsControl(c)

\* Serializer::fString of json-serializer.h, the serializer of the builder:
\* what it writes for one code point
tokWriteChar(cp) ==
    LET out == Utf16(cp)
    IN IF Len(out) = 0 THEN <<>>
       ELSE IF Len(out) = 2 THEN jsWriteJsonU16(out[1]) \o jsWriteJsonU16(out[2])
       ELSE IF out[1] \in NamedEscapes THEN <<92, EscapeLetter(out[1])>>
       ELSE IF IsPrint(out[1]) THEN <<out[1]>>
       ELSE jsWriteJsonU16(out[1])

\* JsonSerializeState::fString of json-value.cpp: what it writes for one code
\* point; after a surrogate pair the reduced code point is written as well
lgWriteChar(cp) ==
    LET low == IF cp >= 65536 THEN cp - 65536 ELSE cp
        pair == IF cp >= 65536
                THEN jsWriteJsonU16(55296 + ((low \div 1024) % 1024))
                     \o jsWriteJsonU16(56320 + (low % 1024))
                ELSE <<>>
    IN IF cp \in NamedEscapes THEN <<92, EscapeLetter(cp)>>
       ELSE pair \o (IF low >= 32 /\ low <= 126 THEN <<low>> ELSE jsWriteJsonU16(low))

StringWriters == {"Serializer::fString", "Serializer::fWriteString", "JsonSerializeState::fString"}

RECURSIVE WriteChars(_, _)
WriteChars(writer, s) ==
    IF s = <<>> THEN <<>>
    ELSE (IF writer = "Serializer::fString" THEN tokWriteChar(Head(s))
          ELSE IF writer = "Serializer::fWriteString" THEN jsWriteChar(Head(s))
          ELSE lgWriteChar(Head(s)))
         \o WriteChars(writer, Tail(s))

\* the string dA written by one of the serializers
DomWriteString(writer) ==
    /\ dop.op = "idle" /\ dA.kind = "str"
    /\ dtext' = <<34>> \o WriteChars(writer, dA.s) \o <<34>>
    /\ dop' = DOp("string", writer, "ok")
    /\ UNCHANGED <<dA, dB>> /\ DomUnchanged

\* ---------------- the mutable accessors of json::Value ----------------

AccessKinds == {"bool", "str", "unum", "inum", "real", "arr", "obj"}

\* the value-initialised alternative of a kind
DefaultOf(t) ==
    IF t = "bool" THEN DBool(FALSE) ELSE IF t = "str" THEN DStr(<<>>)
    ELSE IF t = "unum" THEN DUNum(0) ELSE IF t = "inum" THEN DINum(0)
    ELSE IF t = "real" THEN DReal(0) ELSE IF t = "arr" THEN DArr(<<>>)
    ELSE IF t = "obj" THEN DObj(<<>>) ELSE DNull

\* Value::fEnsureType(t): the value afterwards
fEnsureType(v, t) ==
    IF v.kind = t THEN v
    ELSE IF t = "unum" THEN (IF v.kind = "inum" /\ v.n >= 0 THEN DUNum(v.n) ELSE DUNum(0))
    ELSE IF t = "inum" THEN (IF v.kind = "unum" THEN DINum(ToSigned(v.n)) ELSE DINum(0))
    ELSE IF t = "real"
    THEN (IF v.kind \in {"unum", "inum"} THEN DReal(ToReal(v.n)) ELSE DReal(0))
    ELSE DefaultOf(t)

\* dA.boolean(), dA.str(), ... on a mutable value: dB is the value afterwards
DomAccess(t) ==
    /\ dop.op = "idle"
    /\ dB' = fEnsureType(dA, t)
    /\ dop' = DOp("access", t, "ok")
    /\ UNCHANGED <<dA, dtext>> /\ DomUnchanged

MaxIndex == 2    \* largest index at() is called with

\* Value::at(size_t), const and mutable: the value afterwards and what is thrown
ValueAt(v, i, mutable) ==
    IF mutable
    THEN [val |-> fEnsureType(v, "arr"),
          res |-> IF i >= Len(fEnsureType(v, "arr").items) THEN "range" ELSE "ok"]
    ELSE [val |-> v,
          res |-> IF v.kind # "arr" THEN "type"
                  ELSE IF i >= Len(v.items) THEN "range" ELSE "ok"]

\* dA.at(i): dB is dA after the call
DomAt(i, mutable) ==
    /\ dop.op = "idle"
    /\ dB' = ValueAt(dA, i, mutable).val
    /\ dop' = DOpAt("at", IF mutable THEN "mutable" ELSE "const", ValueAt(dA, i, mutable).res, i)
    /\ UNCHANGED <<dA, dtext>> /\ DomUnchanged

\* ---------------- assigning a JSON-like value ----------------

RECURSIVE fAssignValue(_, _)
RECURSIVE AssignEntries(_, _, _)

\* the loop of the object branch of fAssignValue: obj[entry.first] =
\* json::Value(entry.second) for the entries of val from the i-th on; the
\* constructor json::Value(w) starts from null and calls fAssignValue
AssignEntries(items, val, i) ==
    IF i > Len(val)
    THEN items
    ELSE AssignEntries(ObjSet(items, val[i].key, fAssignValue(DNull, val[i].value)),
                       val, i + 1)

\* Value::fAssignValue: the string, array and object branches call
\* fEnsureType, which keeps the content of a value that already is of the
\* kind, and then write into it: str::TranscodeAllTo writes the code points
\* of val behind those the string holds, push_back adds behind the elements
\* the array holds, obj[key] = adds to or overwrites the members the object
\* holds; a primitive is stored over whatever fEnsureType left
fAssignValue(out, val) ==
    IF val.kind = "obj"
    THEN DObj(AssignEntries(EnsureItems(out, "obj"), val.items, 1))
    ELSE IF val.kind = "str"
    THEN DStr(EnsureStr(out) \o val.s)
    ELSE IF val.kind = "arr"
    THEN DArr(EnsureItems(out, "arr")
                 \o [i \in 1..Len(val.items) |-> fAssignValue(DNull, val.items[i])])
    ELSE [fEnsureType(out, val.kind) EXCEPT !.n = val.n]

\* dA = w for the JSON-like value w held in dB, once and then once more
DomAssign ==
    /\ \/ dop.op = "pick"
       \/ dop.op = "assign" /\ dop.arg = 1
    /\ dA' = fAssignValue(dA, dB)
    /\ dop' = DOpAt("assign", "", "ok", IF dop.op = "pick" THEN 1 ELSE 2)
    /\ UNCHANGED <<dB, dtext>> /\ DomUnchanged

DomNext ==
    \/ \E indent \in BOOLEAN : DomSerialize(indent)
    \/ \E first \in DupValues, last \in DupValues : DomLoadDuplicate(first, last)
    \/ DomDeserialize
    \/ \E v \in DomValues : DomPick(v)
    \/ DomEquals
    \/ \E writer \in StringWriters : DomWriteString(writer)
    \/ \E t \in AccessKinds : DomAccess(t)
    \/ \E i \in 0..MaxIndex, mutable \in BOOLEAN : DomAt(i, mutable)
    \/ DomAssign

SpecDom == DomInit /\ [][DomNext]_vars

\* ---------------- C20: equality across the numeric kinds ----------------

NumericKinds == {"unum", "inum", "real"}

\* C20: dA == dB compares numbers by their mathematical value: an unsigned u
\* and a signed i are equal exactly if i >= 0 and u = i, and values of
\* different kinds of which one is not numeric are never equal.
C20_EqualByValue ==
    dop.op = "equals" =>
        /\ (dA.kind = "unum" /\ dB.kind = "inum")
              => (dop.res = "true" <=> (dB.n >= 0 /\ dA.n = dB.n))
        /\ (dA.kind = "inum" /\ dB.kind = "unum")
              => (dop.res = "true" <=> (dA.n >= 0 /\ dA.n = dB.n))
        /\ (dA.kind # dB.kind /\ ~(dA.kind \in NumericKinds /\ dB.kind \in NumericKinds))
              => dop.res = "false"

\* ---------------- C19: serialize, then deserialize ----------------

\* C19: deserializing the text json::Serialize wrote for dA, compact or
\* pretty, succeeds and yields a value equal to dA under Value::operator==.
C19_RoundTrip ==
    (dop.op = "deserialize" /\ dop.of = "serialize")
        => (dop.res = "ok" /\ ValueEq(dA, dB))

\* ---------------- C18: a key that occurs twice ----------------

\* C18: a text in which the key k occurs twice is accepted, and k maps to
\* the value of its last occurrence and to nothing else.
C18_LastOccurrenceOnly ==
    (dop.op = "deserialize" /\ dop.of = "duplicate")
        => (dop.res = "ok" /\ dB = DObj(<<Entry(<<107>>, dA)>>))

\* ---------------- C21: unsigned integers in the output ----------------

\* C21: a value that holds the unsigned integer u is written as the plain
\* decimal digits of u, for every u up to the largest one, and never with a
\* minus sign.
C21_UnsignedDigits ==
    (dop.op = "serialize" /\ dA.kind = "unum") => dtext = Digits(dA.n)

\* ---------------- C22: escapes in written strings ----------------

\* the text the escaping rules give for a string of quotes, backslashes, the
\* five control shortcuts and code points above the BMP
RECURSIVE EscapedAsStated(_)
EscapedAsStated(s) ==
    IF s = <<>> THEN <<>>
    ELSE (IF Head(s) \in NamedEscapes THEN <<92, EscapeLetter(Head(s))>>
          ELSE jsWriteJsonU16(55296 + ((Head(s) - 65536) \div 1024))
               \o jsWriteJsonU16(56320 + ((Head(s) - 65536) % 1024)))
         \o EscapedAsStated(Tail(s))

\* C22: every serializer writes a quote, a backslash, backspace, form feed,
\* line feed, carriage return and tab as its own named escape, a code point
\* above the BMP as exactly one surrogate pair, and one quote at either end.
C22_NamedEscapes ==
    (/\ dop.op = "string"
     /\ \A i \in 1..Len(dA.s) : dA.s[i] \in NamedEscapes \/ dA.s[i] >= 65536)
        => dtext = <<34>> \o EscapedAsStated(dA.s) \o <<34>>

\* ---------------- C23: coercion by the mutable accessors ----------------

\* an integer-valued real, given in halves, whose value lies in lo..hi
IntegralIn(h, lo, hi) == h % 2 = 0 /\ h \div 2 >= lo /\ h \div 2 <= hi

\* C23: a mutable accessor leaves a value of the requested kind alone, turns
\* a non-numeric value into the default of the kind, and between the numeric
\* kinds keeps the value wherever the target kind can represent it.
C23_CoercionPreservesValue ==
    dop.op = "access" =>
        /\ dB.kind = dop.of
        /\ dA.kind = dop.of => dB = dA
        /\ (dA.kind \notin NumericKinds \/ dop.of \notin NumericKinds) /\ dA.kind # dop.of
              => dB = DefaultOf(dop.of)
        /\ (dA.kind = "inum" /\ dop.of = "unum" /\ dA.n >= 0) => dB.n = dA.n
        /\ (dA.kind = "unum" /\ dop.of = "inum" /\ dA.n <= INumMax) => dB.n = dA.n
        /\ (dA.kind = "real" /\ dop.of = "unum" /\ IntegralIn(dA.n, 0, UNumMax))
              => dB.n = dA.n \div 2
        /\ (dA.kind = "real" /\ dop.of = "inum" /\ IntegralIn(dA.n, INumMin, INumMax))
              => dB.n = dA.n \div 2
        /\ (dA.kind \in {"unum", "inum"} /\ dop.of = "real" /\ ToReal(dA.n) = 2 * dA.n)
              => dB.n = 2 * dA.n

\* ---------------- C24: at(i) out of range ----------------

\* C24: at(i) throws the range error whenever i is not less than the size of
\* the array, and a call that throws leaves the value as it was.
C24_AtOutOfRange ==
    dop.op = "at" =>
        /\ (dA.kind = "arr" /\ dop.arg >= Len(dA.items)) => dop.res = "range"
        /\ dop.res # "ok" => dB = dA

\* ------------------------------------------------------------------
\* The view: json::View reads a document into a ViewState
\* ------------------------------------------------------------------

\* a detail::ViewEntry: a string (offset and length in strings), an array or
\* object (offset in entries and number of entries) or a primitive n
VEntry(kind, offset, n) == [kind |-> kind, offset |-> offset, n |-> n]

RECURSIVE vwValue(_)
RECURSIVE vwMembers(_, _)
RECURSIVE vwElements(_, _)

\* the mutation of vwElements: the offset written is one past the place the
\* list is spliced in at
vwElements_Shifted(st, list) ==
    The({ IF v.err # "none" THEN v
          ELSE The({ IF c.err # "none" THEN c
                     ELSE IF ~c.ret THEN vwElements(c, Append(list, v.val))
                     ELSE [c EXCEPT !.val = VEntry("arr", Len(c.entries) + 1, Len(list) + 1),
                                    !.entries = @ \o Append(list, v.val)]
                   : c \in {dsCloseElseSeparator(v, FALSE)} })
        : v \in {vwValue(st)} })

\* the mutation of vwMembers: the value is put into the list before its key
vwMembers_ValueFirst(st, list) ==
    The({ IF k.err # "none" THEN k
          ELSE The({ IF v.err # "none" THEN v
                     ELSE The({ IF c.err # "none" THEN c
                                ELSE IF ~c.ret
                                THEN vwMembers(c, list \o <<v.val, VEntry("str", Len(st.str),
                                                              Len(k.str) - Len(st.str))>>)
                                ELSE [c EXCEPT
                                        !.val = VEntry("obj", Len(c.entries), Len(list) + 2),
                                        !.entries = @ \o list
                                                    \o <<v.val, VEntry("str", Len(st.str),
                                                                Len(k.str) - Len(st.str))>>]
                              : c \in {dsCloseElseSeparator(v, TRUE)} })
                   : v \in {vwValue(k)} })
        : k \in {dsReadString(st, TRUE)} })

\* the do-while of ViewDeserializer::fObject, list being the local list
vwMembers(st, list) ==
    The({ IF k.err # "none" THEN k
          ELSE The({ IF v.err # "none" THEN v
                     ELSE The({ IF c.err # "none" THEN c
                                ELSE IF ~c.ret
                                THEN vwMembers(c, list \o <<VEntry("str", Len(st.str),
                                                              Len(k.str) - Len(st.str)), v.val>>)
                                ELSE [c EXCEPT
                                        !.val = VEntry("obj", Len(c.entries), Len(list) + 2),
                                        !.entries = @ \o list
                                                    \o <<VEntry("str", Len(st.str),
                                                                Len(k.str) - Len(st.str)), v.val>>]
                              : c \in {dsCloseElseSeparator(v, TRUE)} })
                   : v \in {vwValue(k)} })
        : k \in {dsReadString(st, TRUE)} })

\* the do-while of ViewDeserializer::fArray
vwElements(st, list) ==
    The({ IF v.err # "none" THEN v
          ELSE The({ IF c.err # "none" THEN c
                     ELSE IF ~c.ret THEN vwElements(c, Append(list, v.val))
                     ELSE [c EXCEPT !.val = VEntry("arr", Len(c.entries), Len(list) + 1),
                                    !.entries = @ \o Append(list, v.val)]
                   : c \in {dsCloseElseSeparator(v, FALSE)} })
        : v \in {vwValue(st)} })

\* ViewDeserializer::fValue: val is the entry it returns
vwValue(st) ==
    The({ IF p.err # "none" THEN p
          ELSE IF p.type = "string"
          THEN The({ IF r.err # "none" THEN r
                     ELSE [r EXCEPT !.val = VEntry("str", Len(p.str), Len(r.str) - Len(p.str))]
                   : r \in {dsReadString(p, FALSE)} })
          ELSE IF p.type \in {"object", "array"}
          THEN The({ IF e.err # "none" THEN e
                     ELSE IF e.ret
                     THEN [e EXCEPT !.val = VEntry(IF p.type = "object" THEN "obj" ELSE "arr", 0, 0)]
                     ELSE IF p.type = "object" THEN vwMembers(e, <<>>)
                     ELSE vwElements(e, <<>>)
                   : e \in {dsCheckIsEmpty(p, p.type = "object")} })
          ELSE The({ IF r.err # "none" THEN r ELSE [r EXCEPT !.val = VEntry(r.val.kind, 0, r.val.n)]
                   : r \in {IF p.type = "boolean" THEN dsReadBoolean(p)
                            ELSE IF p.type = "inumber" THEN dsReadNumber(p)
                            ELSE dsReadNull(p)} })
        : p \in {dsPeekOrOpenNext(st)} })

\* json::View(stream): the ViewState, entries[0] being the root
View(text) ==
    The({ IF v.err # "none" THEN [ok |-> FALSE, entries |-> <<>>, strings |-> <<>>]
          ELSE [ok |-> dsCheckDone(v).err = "none",
                entries |-> [v.entries EXCEPT ![1] = v.val],
                strings |-> v.str]
        : v \in {vwValue([DsState(text) EXCEPT !.entries = <<VEntry("null", 0, 0)>>])} })

\* ViewState::str(i) of the entries and strings given
ViewStr(entries, strings, i) ==
    SubSeq(strings, entries[i + 1].offset + 1, entries[i + 1].offset + entries[i + 1].n)

\* the for loop of ViewObjLookup from index j on
RECURSIVE ViewObjScan(_, _, _, _, _)
ViewObjScan(k, obj, j, entries, strings) ==
    IF j >= obj.n THEN [found |-> FALSE, lastKey |-> j, cached |-> FALSE]
    ELSE IF ViewStr(entries, strings, obj.offset + j) = k
    THEN [found |-> TRUE, lastKey |-> j, cached |-> FALSE]
    ELSE ViewObjScan(k, obj, j + 2, entries, strings)

\* the mutation of ViewObjLookup: the cached index answers without its key
\* being compared
ViewObjLookup_AnyCached(k, obj, lastKey, entries, strings) ==
    IF lastKey < obj.n
    THEN [found |-> TRUE, lastKey |-> lastKey, cached |-> TRUE]
    ELSE ViewObjScan(k, obj, 0, entries, strings)

\* detail::ViewObjLookup: found is what it returns, lastKey the index it
\* leaves behind; cached tells that the cached index answered
ViewObjLookup(k, obj, lastKey, entries, strings) ==
    IF lastKey < obj.n /\ ViewStr(entries, strings, obj.offset + lastKey) = k
    THEN [found |-> TRUE, lastKey |-> lastKey, cached |-> TRUE]
    ELSE ViewObjScan(k, obj, 0, entries, strings)

\* {"a":1,"b":2,"a":3}
ViewDocDup == <<123, 34, 97, 34, 58, 49, 44, 34, 98, 34, 58, 50, 44, 34, 97, 34, 58, 51, 125>>
\* {"a":{"b":[1],"b":"a"},"c":{},"a":null}
ViewDocNested == <<123, 34, 97, 34, 58, 123, 34, 98, 34, 58, 91, 49, 93, 44, 34, 98, 34, 58, 34, 97, 34, 125, 44, 34, 99, 34, 58, 123, 125, 44, 34, 97, 34, 58, 110, 117, 108, 108, 125>>
\* [{"k":1,"":2,"k":3},{"b":true}]
ViewDocArr == <<91, 123, 34, 107, 34, 58, 49, 44, 34, 34, 58, 50, 44, 34, 107, 34, 58, 51, 125, 44, 123, 34, 98, 34, 58, 116, 114, 117, 101, 125, 93>>
\* {"b":-1}
ViewDocOne == <<123, 34, 98, 34, 58, 45, 49, 125>>

\* {"":0,"k":[],"":{"c":1}}
ViewDocEmptyKey == <<123, 34, 34, 58, 48, 44, 34, 107, 34, 58, 91, 93, 44, 34, 34, 58, 123, 34, 99, 34, 58, 49, 125, 125>>

\* [[[1],"ab"],{"k":[{"b":[]}],"a":2},"c"]
ViewDocDeep == <<91, 91, 91, 49, 93, 44, 34, 97, 98, 34, 93, 44, 123, 34, 107, 34, 58, 91, 123, 34, 98, 34, 58, 91, 93, 125, 93, 44, 34, 97, 34, 58, 50, 125, 44, 34, 99, 34, 93>>

ViewDocs == {ViewDocDup, ViewDocNested, ViewDocArr, ViewDocOne, ViewDocEmptyKey, ViewDocDeep}

\* the keys looked up: a, b, c, k and the empty key
ViewKeys == {<<97>>, <<98>>, <<99>>, <<107>>, <<>>}

ViewMethods == {"at", "contains", "find"}

\* json::View(text) and a viewer of one of the objects of the document
ViewInit ==
    /\ BuilderIdle /\ ReaderIdle /\ LayIdle
    /\ dA = DNull /\ dB = DNull /\ dop = DOp("idle", "", "")
    /\ dtext \in ViewDocs
    /\ \E v \in {View(dtext)} :
          /\ v.ok
          /\ ventries = v.entries /\ vstrings = v.strings
          /\ vself \in {i \in 0..(Len(v.entries) - 1) : v.entries[i + 1].kind = "obj"}
          /\ pLastKey = v.entries[vself + 1].n
    /\ vop = VOp("View", <<>>, 0, FALSE)

\* at(k) / operator[](k), contains(k) and find(k) of the viewer: res is the
\* index of the entry of the viewer returned (-1 for the null viewer), 1 or 0
\* for contains, and the index the iterator stands at
ViewLookup(method, k) ==
    \E r \in {ViewObjLookup(k, ventries[vself + 1], pLastKey, ventries, vstrings)} :
        /\ pLastKey' = r.lastKey
        /\ vop' = VOp(method, k,
                      IF method = "at"
                      THEN (IF r.found THEN ventries[vself + 1].offset + r.lastKey + 1 ELSE 0 - 1)
                      ELSE IF method = "contains" THEN (IF r.found THEN 1 ELSE 0)
                      ELSE IF r.found THEN ventries[vself + 1].offset + r.lastKey
                      ELSE ventries[vself + 1].offset + ventries[vself + 1].n,
                      r.cached)
        /\ UNCHANGED <<ventries, vstrings, vself, dA, dB, dtext, dop, bvars, rvars, lay>>

ViewNext == \E method \in ViewMethods, k \in ViewKeys : ViewLookup(method, k)

SpecView == ViewInit /\ [][ViewNext]_vars

\* ---------------- C25: lookups answer by the first occurrence ----------------

\* the positions, relative to the object, at which the key k stands
KeyPositions(k) ==
    {j \in 0..(ventries[vself + 1].n - 1) :
        j % 2 = 0 /\ ViewStr(ventries, vstrings, ventries[vself + 1].offset + j) = k}

FirstPosition(k) == CHOOSE j \in KeyPositions(k) : \A i \in KeyPositions(k) : j <= i

\* C25: at(k), contains(k) and find(k) answer by the first occurrence of k in
\* document order, whatever was looked up through the viewer before: the
\* null viewer, false and end() if k is absent.
C25_FirstOccurrence ==
    vop.op \in ViewMethods =>
        IF KeyPositions(vop.key) = {}
        THEN vop.res = (IF vop.op = "at" THEN 0 - 1
                        ELSE IF vop.op = "contains" THEN 0
                        ELSE ventries[vself + 1].offset + ventries[vself + 1].n)
        ELSE vop.res = (IF vop.op = "at"
                        THEN ventries[vself + 1].offset + FirstPosition(vop.key) + 1
                        ELSE IF vop.op = "contains" THEN 1
                        ELSE ventries[vself + 1].offset + FirstPosition(vop.key))

\* the cached index answered a lookup of a key that occurs twice
C25_Witness ==
    vop.op = "at" /\ vop.cached /\ Cardinality(KeyPositions(vop.key)) >= 2

\* ------------------------------------------------------------------
\* JSON pointers: json::Pointer writes one, json::Resolve follows one
\* ------------------------------------------------------------------

\* a step: the key of an object member or the index of an array element
KeyStep(key) == [isKey |-> TRUE, key |-> key, index |-> 0]
IndexStep(index) == [isKey |-> FALSE, key |-> <<>>, index |-> index]

\* the mutation of AppendKey: '~' is written as it is
RECURSIVE AppendKey_RawTilde(_)
AppendKey_RawTilde(key) ==
    IF key = <<>> THEN <<>>
    ELSE (IF Head(key) = 47 THEN <<126, 49>> ELSE <<Head(key)>>) \o AppendKey_RawTilde(Tail(key))

\* the for loop of detail::AppendTo(sink, string): '~' becomes ~0, '/' becomes ~1
RECURSIVE AppendKey(_)
AppendKey(key) ==
    IF key = <<>> THEN <<>>
    ELSE (IF Head(key) = 126 THEN <<126, 48>>
          ELSE IF Head(key) = 47 THEN <<126, 49>>
          ELSE <<Head(key)>>) \o AppendKey(Tail(key))

\* detail::AppendTo, of a key and of an index
AppendTo(step) == <<47>> \o (IF step.isKey THEN AppendKey(step.key) ELSE Digits(step.index))

\* json::Pointer(steps...)
RECURSIVE Pointer(_)
Pointer(steps) == IF steps = <<>> THEN <<>> ELSE AppendTo(Head(steps)) \o Pointer(Tail(steps))

\* the value reached in root by the positions loc, each the place of a
\* member or element in its container
RECURSIVE ValueAtLoc(_, _)
ValueAtLoc(root, loc) ==
    IF loc = <<>> THEN root
    ELSE ValueAtLoc(IF root.kind = "obj" THEN root.items[Head(loc)].value
                    ELSE root.items[Head(loc)], Tail(loc))

\* the while loop of NextResolve: it stands before the code point read next;
\* bad tells that it returned nullptr from inside the loop
RECURSIVE ptrScan(_, _, _, _)
ptrScan(path, it, buffer, inEscape) ==
    IF it + 1 > Len(path)
    THEN [bad |-> FALSE, it |-> it + 1, buffer |-> buffer, inEscape |-> inEscape,
          separatorFound |-> FALSE]
    ELSE IF path[it + 1] = 47
    THEN [bad |-> FALSE, it |-> it + 1, buffer |-> buffer, inEscape |-> inEscape,
          separatorFound |-> TRUE]
    ELSE IF inEscape
    THEN (IF path[it + 1] \notin {48, 49}
          THEN [bad |-> TRUE, it |-> it + 1, buffer |-> buffer, inEscape |-> TRUE,
                separatorFound |-> FALSE]
          ELSE ptrScan(path, it + 1,
                       Append(buffer, IF path[it + 1] = 48 THEN 126 ELSE 47), FALSE))
    ELSE IF path[it + 1] = 126 THEN ptrScan(path, it + 1, buffer, TRUE)
    ELSE ptrScan(path, it + 1, Append(buffer, path[it + 1]), FALSE)

\* the mutation of ParseNumAll: a text that is no number counts as 0
ParseNumAll_Zero(buffer, default) ==
    IF buffer # <<>> /\ \A i \in 1..Len(buffer) : IsDigit(buffer[i])
    THEN DigitsVal(buffer) ELSE 0

\* str::ParseNumAll<size_t>(buffer, default): the number the whole text
\* spells in decimal digits, the default for any other text
ParseNumAll(buffer, default) ==
    IF buffer # <<>> /\ \A i \in 1..Len(buffer) : IsDigit(buffer[i])
    THEN DigitsVal(buffer) ELSE default

\* the lookup of NextResolve in value: the place of the member or element
\* the token names, 0 for nullptr
ptrLookup(value, buffer) ==
    IF value.kind = "obj"
    THEN (IF HasKey(value.items, buffer)
          THEN CHOOSE i \in 1..Len(value.items) : value.items[i].key = buffer
          ELSE 0)
    ELSE (IF ParseNumAll(buffer, Len(value.items)) < Len(value.items)
          THEN ParseNumAll(buffer, Len(value.items)) + 1
          ELSE 0)

\* detail::NextResolve on the value at loc, it standing at a '/'
RECURSIVE NextResolve(_, _, _, _)
NextResolve(root, loc, path, it) ==
    IF ValueAtLoc(root, loc).kind \notin {"arr", "obj"} THEN [found |-> FALSE, loc |-> <<>>]
    ELSE The({ IF t.bad \/ t.inEscape THEN [found |-> FALSE, loc |-> <<>>]
               ELSE The({ IF out = 0 THEN [found |-> FALSE, loc |-> <<>>]
                          ELSE IF ~t.separatorFound THEN [found |-> TRUE, loc |-> Append(loc, out)]
                          ELSE NextResolve(root, Append(loc, out), path, t.it)
                        : out \in {ptrLookup(ValueAtLoc(root, loc), t.buffer)} })
             : t \in {ptrScan(path, it, <<>>, FALSE)} })

\* detail::FirstResolve / json::Resolve(value, path)
Resolve(root, path) ==
    IF path = <<>> THEN [found |-> TRUE, loc |-> <<>>]
    ELSE IF path[1] # 47 THEN [found |-> FALSE, loc |-> <<>>]
    ELSE NextResolve(root, <<>>, path, 1)

MaxSteps == 3    \* longest sequence of steps a pointer is written for
MaxPath == 4     \* longest pointer text resolved as it is

\* {"a":{"b/c":[10,20]}}
PtrDomNested ==
    DObj(<<Entry(<<97>>, DObj(<<Entry(<<98, 47, 99>>, DArr(<<DUNum(10), DUNum(20)>>))>>))>>)

\* {"a":[5,{"":6}],"~":1,"/":[],"0":{"1":2},"":3,"~1":4}
PtrDomKeys ==
    DObj(<<Entry(<<97>>, DArr(<<DUNum(5), DObj(<<Entry(<<>>, DUNum(6))>>)>>)),
           Entry(<<126>>, DUNum(1)),
           Entry(<<47>>, DArr(<<>>)),
           Entry(<<48>>, DObj(<<Entry(<<49>>, DUNum(2))>>)),
           Entry(<<>>, DUNum(3)),
           Entry(<<126, 49>>, DUNum(4))>>)

\* [[1,2],{"a":3},7]
PtrDomArr ==
    DArr(<<DArr(<<DUNum(1), DUNum(2)>>), DObj(<<Entry(<<97>>, DUNum(3))>>), DUNum(7)>>)

PtrDoms == {PtrDomNested, PtrDomKeys, PtrDomArr, DUNum(5)}

\* the steps pointers are written for: the keys a, b/c, ~, ~1 and the empty
\* key, the indices 0 and 1
PtrSteps ==
    {KeyStep(k) : k \in {<<97>>, <<98, 47, 99>>, <<126>>, <<126, 49>>, <<>>}}
    \cup {IndexStep(i) : i \in {0, 1}}

StepSeqs == UNION {[1..n -> PtrSteps] : n \in 0..MaxSteps}

\* the pointer texts resolved as they are: over '/', '~', '0', '1' and 'a'
PtrTexts == UNION {[1..n -> {47, 126, 48, 49, 97}] : n \in 0..MaxPath}

PtrInit ==
    /\ BuilderIdle /\ ReaderIdle /\ ViewIdle /\ LayIdle
    /\ dA \in PtrDoms /\ dB = DNull /\ dtext = <<>> /\ dop = DOp("idle", "", "")

\* dtext = json::Pointer<json::Str>(steps...)
PtrPointer(steps) ==
    /\ dop.op = "idle"
    /\ dtext' = Pointer(steps)
    /\ dop' = DOpAt("Pointer", "", "ok", [steps |-> steps, loc |-> <<>>])
    /\ UNCHANGED <<dA, dB>> /\ DomUnchanged

\* a pointer text from elsewhere
PtrText(path) ==
    /\ dop.op = "idle"
    /\ dtext' = path
    /\ dop' = DOpAt("text", "", "ok", [steps |-> <<>>, loc |-> <<>>])
    /\ UNCHANGED <<dA, dB>> /\ DomUnchanged

\* json::Resolve(dA, dtext): dB is the value the result points to, loc its
\* place in dA
PtrResolve ==
    /\ dop.op \in {"Pointer", "text"}
    /\ \E r \in {Resolve(dA, dtext)} :
          /\ dB' = IF r.found THEN ValueAtLoc(dA, r.loc) ELSE DNull
          /\ dop' = DOpAt("Resolve", dop.op, IF r.found THEN "found" ELSE "unresolved",
                          [steps |-> dop.arg.steps, loc |-> r.loc])
    /\ UNCHANGED <<dA, dtext>> /\ DomUnchanged

PtrNext ==
    \/ \E steps \in StepSeqs : PtrPointer(steps)
    \/ \E path \in PtrTexts : PtrText(path)
    \/ PtrResolve

SpecPointer == PtrInit /\ [][PtrNext]_vars

\* ---------------- C26: a pointer leads where its steps lead ----------------

\* stepping through root with the steps themselves: ok tells that root
\* contains the path, loc is the place reached
RECURSIVE StepInto(_, _, _)
StepInto(root, loc, steps) ==
    IF steps = <<>> THEN [ok |-> TRUE, loc |-> loc]
    ELSE LET v == ValueAtLoc(root, loc)
             st == Head(steps)
         IN IF st.isKey /\ v.kind = "obj" /\ HasKey(v.items, st.key)
            THEN StepInto(root,
                          Append(loc, CHOOSE i \in 1..Len(v.items) : v.items[i].key = st.key),
                          Tail(steps))
            ELSE IF ~st.isKey /\ v.kind = "arr" /\ st.index < Len(v.items)
            THEN StepInto(root, Append(loc, st.index + 1), Tail(steps))
            ELSE [ok |-> FALSE, loc |-> <<>>]

\* C26: if dA contains the path of the steps, resolving the pointer written
\* for them reaches the value the steps reach.
C26_PointerRoundTrip ==
    (/\ dop.op = "Resolve" /\ dop.of = "Pointer"
     /\ StepInto(dA, <<>>, dop.arg.steps).ok)
        => /\ dop.res = "found"
           /\ dop.arg.loc = StepInto(dA, <<>>, dop.arg.steps).loc
           /\ dB = ValueAtLoc(dA, StepInto(dA, <<>>, dop.arg.steps).loc)

\* two steps were followed, the last a key that holds '/' or '~'
C26_Witness ==
    /\ dop.op = "Resolve" /\ dop.of = "Pointer" /\ dop.res = "found"
    /\ Len(dop.arg.steps) >= 2
    /\ \E i \in 1..Len(dop.arg.steps[Len(dop.arg.steps)].key) :
          dop.arg.steps[Len(dop.arg.steps)].key[i] \in {47, 126}

\* ---------------- C27: what a pointer text resolves to ----------------

\* the tokens of a text that starts with '/': what stands between the '/'
RECURSIVE PtrTokens(_)
PtrTokens(path) ==
    LET rest == Tail(path)
        cut == IndexOf(rest, {47})
    IN IF cut = 0 THEN <<rest>>
       ELSE <<SubSeq(rest, 1, cut - 1)>> \o PtrTokens(SubSeq(rest, cut, Len(rest)))

\* every '~' of the token is followed by '0' or '1'
TokenValid(tok) ==
    \A i \in 1..Len(tok) : tok[i] = 126 => (i < Len(tok) /\ tok[i + 1] \in {48, 49})

RECURSIVE TokenDecoded(_)
TokenDecoded(tok) ==
    IF tok = <<>> THEN <<>>
    ELSE IF Head(tok) = 126
    THEN <<IF tok[2] = 48 THEN 126 ELSE 47>> \o TokenDecoded(Tail(Tail(tok)))
    ELSE <<Head(tok)>> \o TokenDecoded(Tail(tok))

\* the step a decoded token stands for in the value v, if there is one
TokenSteps(v, key) ==
    IF v.kind = "obj" THEN {KeyStep(key)}
    ELSE {IndexStep(n) : n \in {m \in 0..(Len(v.items) - 1) :
                                   key # <<>> /\ (\A i \in 1..Len(key) : IsDigit(key[i]))
                                   /\ DigitsVal(key) = m}}

\* following the tokens one after the other
RECURSIVE TokensInto(_, _, _)
TokensInto(root, loc, toks) ==
    IF toks = <<>> THEN [ok |-> TRUE, loc |-> loc]
    ELSE IF ~TokenValid(Head(toks)) \/ ValueAtLoc(root, loc).kind \notin {"arr", "obj"}
    THEN [ok |-> FALSE, loc |-> <<>>]
    ELSE LET reached == {n \in {StepInto(root, loc, <<st>>) :
                               st \in TokenSteps(ValueAtLoc(root, loc), TokenDecoded(Head(toks)))} :
                         n.ok}
         IN IF reached = {} THEN [ok |-> FALSE, loc |-> <<>>]
            ELSE TokensInto(root, (CHOOSE n \in reached : TRUE).loc, Tail(toks))

\* C27: the empty pointer resolves to the root; a text that does not start
\* with '/', a token with a '~' that is not followed by '0' or '1', a key the
\* object lacks, an array step that is no index below the size, and a step
\* into a value that is no container are unresolved; everything else is
\* resolved by its tokens.
C27_ResolveCases ==
    dop.op = "Resolve" =>
        IF dtext = <<>> THEN dop.res = "found" /\ dop.arg.loc = <<>> /\ dB = dA
        ELSE IF dtext[1] # 47 THEN dop.res = "unresolved"
        ELSE IF TokensInto(dA, <<>>, PtrTokens(dtext)).ok
        THEN dop.res = "found" /\ dop.arg.loc = TokensInto(dA, <<>>, PtrTokens(dtext)).loc
        ELSE dop.res = "unresolved"

\* a text whose last token ends in '~' was not resolved
C27_Witness ==
    /\ dop.op = "Resolve" /\ dop.res = "unresolved"
    /\ Len(dtext) >= 2 /\ dtext[1] = 47 /\ dtext[Len(dtext)] = 126 /\ dA.kind = "obj"

(***************************************************************************)
(* Deserializer::readNumber on its own: a text under the cursor            *)
(***************************************************************************)
MaxNum == 4     \* code points of a text handed to readNumber

\* '-', '+', '.', 'e', 'E', ' ', '0', '1', '2'
NumChars == {45, 43, 46, 101, 69, 32, 48, 49, 50}

\* the integer texts at the ends of the ranges of json::UNum and json::INum
EdgeTexts ==
    { Digits(UNumMax), Digits(UNumMax + 1), Digits(INumMax), Digits(INumMax + 1),
      <<45>> \o Digits(0 - INumMin), <<45>> \o Digits(1 - INumMin),
      <<45>> \o Digits(INumMax), <<45>> \o Digits(UNumMax) }

NumTexts ==
    UNION { [1..n -> NumChars] : n \in 0..MaxNum } \cup EdgeTexts

NumInit ==
    /\ BuilderIdle /\ ReaderIdle /\ ViewIdle /\ LayIdle
    /\ dA = DNull /\ dB = DNull /\ dop = DOp("idle", "", "")
    /\ dtext \in NumTexts

\* readNumber with the cursor at the start of dtext: dop tells the state the
\* machine stopped in, the outcome and the number of code points consumed, dB
\* the value returned
NumRead ==
    /\ dop.op = "idle"
    /\ \E r \in {dsReadNumber(DsState(dtext))} :
          /\ dB' = (IF r.err = "none" THEN r.val ELSE DNull)
          /\ dop' = DOpAt("readNumber", r.type,
                          IF r.err = "none" THEN "ok" ELSE r.err, r.pos)
    /\ UNCHANGED <<dA, dtext>> /\ DomUnchanged

NumNext == NumRead

SpecNumber == NumInit /\ [][NumNext]_vars

\* ---------------- C29: the texts readNumber accepts ----------------

AllDigits(x) == \A n \in 1..Len(x) : x[n] \in 48..57

\* int = "0" / ( digit1-9 *DIGIT )
RfcInt(x) == x = <<48>> \/ (x # <<>> /\ x[1] \in 49..57 /\ AllDigits(x))

\* [ frac ], frac = "." 1*DIGIT
RfcFrac(x) == x = <<>> \/ (Len(x) >= 2 /\ x[1] = 46 /\ AllDigits(Tail(x)))

\* [ exp ], exp = ( "e" / "E" ) [ "-" / "+" ] 1*DIGIT
RfcExp(x) ==
    \/ x = <<>>
    \/ /\ Len(x) >= 2 /\ x[1] \in {101, 69}
       /\ \/ AllDigits(Tail(x))
          \/ x[2] \in {43, 45} /\ Len(x) >= 3 /\ AllDigits(SubSeq(x, 3, Len(x)))

\* number = [ "-" ] int [ frac ] [ exp ] (RFC 8259, section 6)
RfcNumber(t) ==
    \E s \in 0..1, i \in 0..Len(t), j \in 0..Len(t) :
        /\ s <= i /\ i <= j
        /\ (s = 1 => Len(t) >= 1 /\ t[1] = 45)
        /\ RfcInt(SubSeq(t, s + 1, i))
        /\ RfcFrac(SubSeq(t, i + 1, j))
        /\ RfcExp(SubSeq(t, j + 1, Len(t)))

\* t can be continued to a number
RfcNumberStart(t) == RfcNumber(t) \/ RfcNumber(t \o <<48>>)

Prefix(t, n) == SubSeq(t, 1, n)

Accepting == {"inDigits", "postDigits", "inFraction", "inExponent"}

\* C29: readNumber consumes the longest prefix of the text that can be
\* continued to a number of RFC 8259, succeeds iff it stops in one of the four
\* accepting states and iff what it consumed is a number of RFC 8259, so it
\* accepts a whole text iff the text is such a number; '-', '1.', '1e', '1e+'
\* and '1e-' fail as malformed.
C29_AcceptsRfcNumbers ==
    dop.op = "readNumber" =>
        /\ dop.arg \in 0..Len(dtext)
        /\ RfcNumberStart(Prefix(dtext, dop.arg))
        /\ dop.arg < Len(dtext) => ~RfcNumberStart(Prefix(dtext, dop.arg + 1))
        /\ dop.res = "ok" <=> dop.of \in Accepting
        /\ dop.res = "ok" <=> RfcNumber(Prefix(dtext, dop.arg))
        /\ (dop.res = "ok" /\ dop.arg = Len(dtext)) <=> RfcNumber(dtext)
        /\ dtext \in {<<45>>, <<49, 46>>, <<49, 101>>, <<49, 101, 43>>, <<49, 101, 45>>}
              => dop.res = "deserialize"
        /\ dop.res # "ok" => dop.res = "deserialize"

\* a zero followed by a digit: the zero alone was read
C29_Witness ==
    /\ dop.op = "readNumber" /\ dop.res = "ok" /\ dop.of = "postDigits" /\ dop.arg = 1
    /\ Len(dtext) >= 2 /\ dtext[2] = 49

\* ---------------- C30: the kind of the number read ----------------

\* the number a text of decimal digits denotes
RECURSIVE Decimal(_, _)
Decimal(x, acc) == IF x = <<>> THEN acc ELSE Decimal(Tail(x), 10 * acc + (Head(x) - 48))

\* C30: an accepted text of digits only within the range of json::UNum gives
\* that unsigned number; '-' and digits only within the range of json::INum
\* gives that signed number; every other accepted text gives a real. "-0"
\* gives the signed 0, and a text of digits only never gives a signed number.
C30_Classification ==
    (dop.op = "readNumber" /\ dop.res = "ok") =>
        \E t \in {Prefix(dtext, dop.arg)} :
            /\ (AllDigits(t) /\ Decimal(t, 0) <= Pow2(IntBits) - 1)
                  => dB = DUNum(Decimal(t, 0))
            /\ (t[1] = 45 /\ AllDigits(Tail(t)) /\ Decimal(Tail(t), 0) <= Pow2(IntBits - 1))
                  => dB = DINum(0 - Decimal(Tail(t), 0))
            /\ ~(\/ AllDigits(t) /\ Decimal(t, 0) <= Pow2(IntBits) - 1
                 \/ /\ t[1] = 45 /\ AllDigits(Tail(t))
                    /\ Decimal(Tail(t), 0) <= Pow2(IntBits - 1))
                  => dB.kind = "real"
            /\ t = <<45, 48>> => dB = DINum(0)
            /\ AllDigits(t) => dB.kind # "inum"

\* the first unsigned integer out of range was read, as a real
C30_Witness ==
    /\ dop.op = "readNumber" /\ dop.res = "ok"
    /\ dtext = Digits(Pow2(IntBits)) /\ dop.arg = Len(dtext) /\ dB.kind = "real"

(***************************************************************************)
(* Builder: separators, the active stack and what a call leaves behind     *)
(***************************************************************************)
\* the positions of s at which a child of the composite opened at e starts: a
\* key of an object, the first token of an element of an array
ChildStarts(s, dep, e) ==
    {j \in (e + 1)..Len(s) :
        /\ dep[j] = dep[e] + 1 /\ EnclosingAt(s, dep, j) = e
        /\ IF s[e] = "{" THEN s[j] \in Keys
           ELSE s[j] \in PrimToks \cup Opening}

\* C31: in the sink a ',' stands directly before a key or an array element iff
\* the composite holds an earlier child; a ',' stands nowhere else, except as
\* the last token while the value of a further child is awaited.
C31_CommaIffNotFirst ==
    \E dep \in {Depths(sink)} :
        /\ \A e \in 1..Len(sink) :
              sink[e] \in Opening =>
                  \E cs \in {ChildStarts(sink, dep, e)} :
                      \A j \in cs :
                          (sink[j - 1] = ",") <=> (\E k \in cs : k < j)
        /\ \A i \in 1..Len(sink) :
              sink[i] = "," =>
                  /\ i > 1 /\ sink[i - 1] \in PrimToks \cup Closing
                  /\ \/ /\ i < Len(sink)
                        /\ \E e \in 1..i : /\ sink[e] \in Opening
                                           /\ (i + 1) \in ChildStarts(sink, dep, e)
                     \/ i = Len(sink) /\ awaitingValue

\* an empty nested array was closed and a sibling follows it, and a nested
\* composite holds a first child
C31_Witness ==
    /\ \E i \in 1..(Len(sink) - 3) :
          /\ sink[i] = "[" /\ sink[i + 1] = "]" /\ sink[i + 2] = ","
          /\ sink[i + 3] \in PrimToks \cup Opening
    /\ \E i \in 2..(Len(sink) - 1) :
          sink[i] \in Opening /\ sink[i - 1] \in Opening \cup {",", ":"}
          /\ sink[i + 1] \in Keys \cup PrimToks
    /\ bop.op \in {"push", "add"}

\* the opening brackets of s that no later bracket closes
UnclosedAt(s) ==
    LET dep == Depths(Append(s, ""))
    IN {e \in 1..Len(s) : s[e] \in Opening /\ \A j \in (e + 1)..(Len(s) + 1) : dep[j] > dep[e]}

\* the k-th smallest element of a set of numbers
RECURSIVE Sorted(_)
Sorted(S) ==
    IF S = {} THEN <<>>
    ELSE LET m == CHOOSE x \in S : \A y \in S : x <= y
         IN <<m>> \o Sorted(S \ {m})

\* C32: between the operations of the builder the active stack lists, bottom
\* to top, the composites whose opening bracket is in the sink and not yet
\* closed, in the order of their brackets; its size is the serializer's depth,
\* no composite is on it twice, and a composite handle is in state obj / arr
\* iff it is on the stack.
C32_ActiveIsOpenPath ==
    /\ Len(active) = pDepth
    /\ \A i \in 1..Len(active), j \in 1..Len(active) : active[i] = active[j] => i = j
    /\ \A i \in 1..Len(active) : active[i] \in Composites
    /\ \A h \in Composites :
          /\ (handles[h].pState \in {"obj", "arr"}) <=> (\E i \in 1..Len(active) : active[i] = h)
          /\ handles[h].pState \in {"obj", "arr"} => handles[h].pState = handles[h].cls
          /\ (\E i \in 1..Len(active) : active[i] = h)
                <=> (handles[h].openAt # 0 /\ handles[h].closeAt = <<>>)
    /\ \E unclosed \in {Sorted(UnclosedAt(sink))} :
          /\ Len(unclosed) = Len(active)
          /\ \A i \in 1..Len(active) :
                /\ handles[active[i]].openAt = unclosed[i]
                /\ sink[unclosed[i]] = (IF handles[active[i]].cls = "obj" THEN "{" ELSE "[")

\* two composites are open, a third one has been closed
C32_Witness ==
    /\ Len(active) = 2
    /\ \E h \in Composites : handles[h].pState = "closed" /\ handles[h].closeAt # <<>>

\* the opening bracket of the top-most active composite (0: the stack is empty)
TopOpen == IF active = <<>> THEN 0 ELSE handles[Top(active)].openAt

\* the next token written goes directly into the composite opened at e
CursorIn(e) ==
    \E ext \in {Append(sink, "")} :
        EnclosingAt(ext, Depths(ext), Len(ext)) = e

\* the sink ends with a key of the top-most object and its colon, or with the
\* separator of a further element of the top-most array
EndsWithKeyOrSeparator ==
    /\ active # <<>> /\ CursorIn(TopOpen)
    /\ \/ /\ sink[TopOpen] = "{" /\ Len(sink) >= TopOpen + 2
          /\ sink[Len(sink)] = ":" /\ sink[Len(sink) - 1] \in Keys
       \/ sink[TopOpen] = "[" /\ sink[Len(sink)] = ","

\* the sink ends with the opening bracket of the top-most composite or with a
\* complete value directly inside it
EndsWithOpenOrValue ==
    /\ active # <<>> /\ CursorIn(TopOpen)
    /\ \/ Len(sink) = TopOpen
       \/ /\ sink[Len(sink)] \in PrimToks \cup Closing
          /\ sink[Len(sink) - 1] \in Opening \cup Closing \cup PrimToks \cup {":", ","}

\* C33 (as claimed): while a value is awaited the sink ends with a key and its
\* colon or with an array element separator of the top-most active composite,
\* or is empty; while none is awaited and the builder is not done it ends with
\* an opening bracket or a complete value inside the top-most active composite.
C33_AsClaimed ==
    /\ awaitingValue => (sink = <<>> \/ EndsWithKeyOrSeparator)
    /\ (~awaitingValue /\ ~done) => EndsWithOpenOrValue

\* C33 (amended): as claimed, and while the first element of the top-most
\* array is awaited the sink ends with the opening bracket of that array.
C33_LastTokenFitsFlag ==
    /\ awaitingValue =>
          \/ sink = <<>> /\ active = <<>>
          \/ EndsWithKeyOrSeparator
          \/ active # <<>> /\ sink[TopOpen] = "[" /\ Len(sink) = TopOpen
    /\ (~awaitingValue /\ ~done) => EndsWithOpenOrValue
    /\ (awaitingValue /\ active # <<>> /\ sink[TopOpen] = "{") => sink[Len(sink)] = ":"

\* the value of a key and the second element of an array were awaited, one
\* after the other
C33_Witness ==
    /\ awaitingValue /\ EndsWithKeyOrSeparator /\ sink[Len(sink)] = ","
    /\ \E i \in 1..Len(sink) : sink[i] = ":" /\ sink[i + 1] = "["
    /\ bop.op = "pushVal"

\* C34: a call that throws JsonBuilderException writes nothing and leaves the
\* stack, the value stamp, the awaiting and done flags and every handle as
\* they were.
C34_ThrowChangesNothing ==
    [][bop'.res = "throw" =>
          UNCHANGED <<sink, pDepth, pAlreadyHasValue, active, valueStamp, awaitingValue,
                      done, handles, stamps>>]_vars

\* a call threw while a value was awaited inside an open composite
C34_Witness ==
    /\ bop.res = "throw" /\ awaitingValue /\ active # <<>> /\ ~done

\* C35: once done is set it stays set, every call on a handle throws, the
\* drop of a handle ends normally and the sink does not change any more.
C35_DoneIsFinal ==
    /\ [](done => \A h \in 1..Len(handles) : handles[h].live => CaptureThrows(BState, h))
    /\ [][done =>
             /\ done' /\ sink' = sink
             /\ bop' # bop => \/ bop'.res = "throw"
                              \/ bop'.op \in {"drop", "copy"} /\ bop'.res = "ok"]_vars

\* after done a call on a composite handle threw and handles are still alive
C35_Witness ==
    /\ done /\ bop.res = "throw" /\ handles[bop.h].cls \in {"obj", "arr"}
    /\ \E h \in 1..Len(handles) : handles[h].live /\ handles[h].cls = "value"

(***************************************************************************)
(* Reader: the stamp counter and the active stack                          *)
(***************************************************************************)
\* the references to composite values that exist: in the Reader values the
\* caller holds and in the current values of the Instances
CompositeRefs ==
    {rvals[i].v : i \in {j \in 1..Len(rvals) : rvals[j].live /\ rvals[j].v.kind \in Composite}}
    \cup {insts[i].value :
            i \in {j \in 1..Len(insts) : ~insts[j].freed /\ insts[j].value.kind \in Composite}}

\* C36: the stamp counter never falls and counts the pushes onto and the pops
\* from the active stack; a reference to a composite value carries the counter
\* only while the Instance made for that value is the top of the stack, so
\* open() finds a non-empty stack and the Instance of its own value.
C36_StampTracksStack ==
    /\ [](pNextStamp = nEvents)
    /\ [](\A v \in CompositeRefs :
             v.stamp = pNextStamp => pActive # <<>> /\ Top(pActive) = v.src)
    /\ [][/\ pNextStamp' >= pNextStamp
          /\ pActive' # pActive => pNextStamp' > pNextStamp
          /\ (rop' # rop /\ rop'.op = "open" /\ rop'.res = "ok")
                => /\ GetVal(rop'.src).stamp = pNextStamp
                   /\ rhandles'[rop'.h].inst = GetVal(rop'.src).src]_vars

\* a nested composite is the top of the stack and its reference carries the
\* counter, while the reference of its parent is still held and is stale
C36_Witness ==
    /\ Len(pActive) >= 2
    /\ \E v \in CompositeRefs : v.stamp = pNextStamp
    /\ \E v \in CompositeRefs : v.stamp < pNextStamp /\ v.src = pActive[1]

\* ---------------- C37: assignment of a JSON-like value ----------------

\* C37: after a JSON-like value w was assigned to a value, once or twice,
\* the value equals a value freshly constructed from w, whatever it held
\* before the assignment.
C37_AssignReplaces ==
    dop.op = "assign" => ValueEq(dA, fAssignValue(DNull, dB))

\* ---------------- C38: where the children of a composite lie ----------------

\* the indices of the array and object entries of the view
CompositeEntries == {i \in 0..(Len(ventries) - 1) : ventries[i + 1].kind \in {"arr", "obj"}}

\* the indices the entry at index i names as its children
ChildRange(i) == ventries[i + 1].offset .. (ventries[i + 1].offset + ventries[i + 1].n - 1)

\* the kind of the value a document starts with
KindOfDocument(text) ==
    IF text[1] = 123 THEN "obj" ELSE IF text[1] = 91 THEN "arr" ELSE IF text[1] = 34 THEN "str"
    ELSE "primitive"

\* the root is the entry at index 0, no entry's child
RootAtZero ==
    /\ Len(ventries) >= 1
    /\ KindOfDocument(dtext) \in {"obj", "arr", "str"} => ventries[1].kind = KindOfDocument(dtext)
    /\ \A i \in CompositeEntries : 0 \notin ChildRange(i)

\* C38 as worded: the root is at index 0 and the offset of every array and
\* object entry is greater than the index the entry is stored at.
C38_AsClaimed ==
    vop.op # "idle" =>
        /\ RootAtZero
        /\ \A i \in CompositeEntries : ventries[i + 1].offset > i

\* C38: the root is at index 0; an empty array or object has offset 0 and
\* count 0; the children of the root, if it has any, are the last entries of
\* the array; the children of every other non-empty array or object lie in
\* the range from offset on that ends before the index of the entry itself.
C38_ChildrenBeforeNestedComposite ==
    vop.op # "idle" =>
        /\ RootAtZero
        /\ \A i \in CompositeEntries :
              IF ventries[i + 1].n = 0
              THEN ventries[i + 1].offset = 0
              ELSE /\ ventries[i + 1].offset >= 1
                   /\ i = 0 => ventries[i + 1].offset + ventries[i + 1].n = Len(ventries)
                   /\ i > 0 => ventries[i + 1].offset + ventries[i + 1].n <= i

\* a view with an empty composite and with a composite inside a composite
\* inside the root, both with children
C38_Witness ==
    /\ vop.op # "idle"
    /\ \E i \in CompositeEntries : ventries[i + 1].n = 0
    /\ \E i \in CompositeEntries, j \in CompositeEntries :
          /\ i > 0 /\ j \in ChildRange(i) /\ ventries[j + 1].n > 0

\* ---------------- C39: the layout of a view ----------------

RECURSIVE ViewText(_)
RECURSIVE ViewTextOf(_, _, _, _)

\* the text of the children from the j-th on of a composite: a key, then ':'
\* and its value for an object, the elements for an array, commas between
ViewTextOf(offset, n, j, keyed) ==
    IF j >= n THEN <<>>
    ELSE (IF j > 0 THEN <<44>> ELSE <<>>)
         \o (IF keyed
             THEN ViewText(offset + j) \o <<58>> \o ViewText(offset + j + 1)
             ELSE ViewText(offset + j))
         \o ViewTextOf(offset, n, j + (IF keyed THEN 2 ELSE 1), keyed)

\* the compact text of the value the entry at index i stands for
ViewText(i) ==
    IF ventries[i + 1].kind = "str"
    THEN <<34>> \o ViewStr(ventries, vstrings, i) \o <<34>>
    ELSE IF ventries[i + 1].kind = "obj"
    THEN <<123>> \o ViewTextOf(ventries[i + 1].offset, ventries[i + 1].n, 0, TRUE) \o <<125>>
    ELSE IF ventries[i + 1].kind = "arr"
    THEN <<91>> \o ViewTextOf(ventries[i + 1].offset, ventries[i + 1].n, 0, FALSE) \o <<93>>
    ELSE IF ventries[i + 1].kind = "null" THEN <<110, 117, 108, 108>>
    ELSE IF ventries[i + 1].kind = "bool"
    THEN (IF ventries[i + 1].n = 1 THEN <<116, 114, 117, 101>> ELSE <<102, 97, 108, 115, 101>>)
    ELSE IF ventries[i + 1].n < 0 THEN <<45>> \o Digits(0 - ventries[i + 1].n)
    ELSE Digits(ventries[i + 1].n)

\* C39: every non-empty composite has 1 <= offset and offset + count <= number
\* of entries; the child ranges of distinct composites are disjoint and every
\* index but 0 lies in exactly one of them; the count of an object is even
\* and its even positions hold string entries; every string entry lies inside
\* the blob; and reading the entries from the root on, keys and values in the
\* order of their ranges, gives the document back.
C39_LayoutOfView ==
    vop.op # "idle" =>
        /\ \A i \in CompositeEntries :
              ventries[i + 1].n > 0 =>
                 /\ 1 <= ventries[i + 1].offset
                 /\ ventries[i + 1].offset + ventries[i + 1].n <= Len(ventries)
        /\ \A i \in CompositeEntries, j \in CompositeEntries :
              i # j => ChildRange(i) \cap ChildRange(j) = {}
        /\ \A c \in 1..(Len(ventries) - 1) :
              Cardinality({i \in CompositeEntries : c \in ChildRange(i)}) = 1
        /\ \A i \in CompositeEntries : 0 \notin ChildRange(i)
        /\ \A i \in CompositeEntries :
              ventries[i + 1].kind = "obj" =>
                 /\ ventries[i + 1].n % 2 = 0
                 /\ \A c \in ChildRange(i) :
                       (c - ventries[i + 1].offset) % 2 = 0 => ventries[c + 1].kind = "str"
        /\ \A i \in 0..(Len(ventries) - 1) :
              ventries[i + 1].kind = "str"
                 => ventries[i + 1].offset + ventries[i + 1].n <= Len(vstrings)
        /\ ViewText(0) = dtext

\* a view of an object of two or more members inside a composite, with a
\* string and a non-empty array among the values of the document
C39_Witness ==
    /\ vop.op # "idle"
    /\ \E i \in CompositeEntries :
          /\ i > 0 /\ ventries[i + 1].kind = "obj" /\ ventries[i + 1].n >= 4
    /\ \E i \in CompositeEntries, c \in 0..(Len(ventries) - 1) :
          /\ ventries[i + 1].kind = "arr" /\ c \in ChildRange(i)
          /\ ventries[c + 1].kind = "str" /\ ventries[c + 1].n > 0

====
